---- MODULE Spec2Model ----
(***************************************************************************)
(* Watchdog: the probe engine (checker.Check and its protocol probers).    *)
(*                                                                         *)
(* Go strings are TLA+ strings.  A pointer field (BodyMatch, SSLExpiry) is *)
(* a sequence: <<>> is nil, <<v>> points to v.  A Go error value is modelled *)
(* the same way: <<>> is nil, <<msg>> an error whose Error() is msg.       *)
(***************************************************************************)
EXTENDS Integers, Sequences, FiniteSets, TLC

\* Largest Retries value a target is given.
MaxRetries == 2

\* Number of Check calls a caller makes in a row on one target.
MaxCalls == 3

-----------------------------------------------------------------------------
\* Strings

\* strings.Contains(s, sub)
Contains(s, sub) ==
    \E k \in 1..(Len(s) - Len(sub) + 1) : SubSeq(s, k, k + Len(sub) - 1) = sub

IsSpace(c) == c \in {" ", "\n", "\t", "\r"}

RECURSIVE TrimLeft(_)
TrimLeft(s) ==
    IF Len(s) > 0 /\ IsSpace(SubSeq(s, 1, 1)) THEN TrimLeft(SubSeq(s, 2, Len(s))) ELSE s

RECURSIVE TrimRight(_)
TrimRight(s) ==
    IF Len(s) > 0 /\ IsSpace(SubSeq(s, Len(s), Len(s)))
    THEN TrimRight(SubSeq(s, 1, Len(s) - 1))
    ELSE s

\* strings.TrimSpace(s)
TrimSpace(s) == TrimRight(TrimLeft(s))

\* strings.Join(elems, sep)
RECURSIVE Join(_, _)
Join(elems, sep) ==
    IF Len(elems) = 0 THEN ""
    ELSE IF Len(elems) = 1 THEN elems[1]
    ELSE elems[1] \o sep \o Join(Tail(elems), sep)

\* The %d verb: the decimal digits of n, with a sign when n is negative.
RECURSIVE Digits(_)
Digits(n) ==
    IF n < 10 THEN SubSeq("0123456789", n + 1, n + 1)
    ELSE Digits(n \div 10) \o SubSeq("0123456789", (n % 10) + 1, (n % 10) + 1)

FormatInt(n) == IF n < 0 THEN "-" \o Digits(0 - n) ELSE Digits(n)

\* The %q verb (strconv.Quote): s in double quotes, with the quote, the
\* backslash and the control characters of s escaped.
RECURSIVE EscapeQ(_)
EscapeQ(s) ==
    IF Len(s) = 0 THEN ""
    ELSE LET c == SubSeq(s, 1, 1)
             e == IF c = "\"" THEN "\\\""
                  ELSE IF c = "\\" THEN "\\\\"
                  ELSE IF c = "\n" THEN "\\n"
                  ELSE IF c = "\t" THEN "\\t"
                  ELSE IF c = "\r" THEN "\\r"
                  ELSE c
         IN  e \o EscapeQ(SubSeq(s, 2, Len(s)))

Quote(s) == "\"" \o EscapeQ(s) \o "\""

\* fmt.Sprintf("%x", sha256.Sum256([]byte(content))): the digests of the
\* contents the responses below can produce.
Sha256Hex(content) ==
    CASE content = "" ->
           "e3b0c44298fc1c149afbf4c8996fb92427ae41e4649b934ca495991b7852b855"
      [] content = "ok" ->
           "2689367b205c16ce32ed4200942b8b8b1e262dfc70d9bc9fbc77c49699a4f1df"
      [] content = "<b>ok</b>" ->
           "6cc72b1759caade02e5829c6698f26301456f92f6a9e295813095ab7feb84db1"
      [] content = "<b> </b>" ->
           "7dca2586421e2956068ec9e05b7c0b4270822797d8e3739a39a8644f4461e69e"
      [] content = "<b> a </b>ok<b>c</b>" ->
           "6cd2039a0f9946080075bf3a60363ea6170e89cf5896e6d7d9ba3da0a6983df7"
      [] content = "a\nc" ->
           "9e58d7137c654f526a7a7c9cbab79c2e859b4dfbb579d1d6dd3aa4113a8a909b"

-----------------------------------------------------------------------------
\* Response bodies.  A body is the markup a server sends: a sequence of
\* nodes, each an element with a tag and a text, or a bare text node (whose
\* tag is the empty string).

Node(tag, text) == [tag |-> tag, text |-> text]

Bodies ==
    { <<Node("b", "ok")>>,
      <<Node("", "ok")>>,
      <<>>,
      <<Node("b", " ")>>,
      <<Node("b", " a "), Node("", "ok"), Node("b", "c")>> }

\* The bytes of the body: string(body) at the head of the content pipeline.
RECURSIVE Raw(_)
Raw(doc) ==
    IF Len(doc) = 0 THEN ""
    ELSE LET n == Head(doc)
         IN  (IF n.tag = "" THEN n.text
              ELSE "<" \o n.tag \o ">" \o n.text \o "</" \o n.tag \o ">")
             \o Raw(Tail(doc))

\* doc.Find(selector).Each(... strings.TrimSpace(s.Text())): the trimmed text
\* of every element the (type) selector matches, in document order.
RECURSIVE Selected(_, _)
Selected(doc, selector) ==
    IF Len(doc) = 0 THEN <<>>
    ELSE (IF Head(doc).tag = selector THEN <<TrimSpace(Head(doc).text)>> ELSE <<>>)
         \o Selected(Tail(doc), selector)

-----------------------------------------------------------------------------
\* Targets, results and the outcomes of one attempt

TargetTypes == {"http", "https", "tcp", "ping", "dns", "ftp"}
URLs        == {"https://example.com", ":bad"}
SteadyURL   == "http://steady.example"
Selectors   == {"", "b"}
Expects     == {"", "ok"}
RetryValues == (0 - 1)..MaxRetries

\* type Result struct, and the value of &Result{}
ZeroResult ==
    [Status |-> "", StatusCode |-> 0, ResponseTime |-> 0, ContentHash |-> "",
     Content |-> "", Error |-> "", SSLExpiry |-> <<>>, BodyMatch |-> <<>>]

\* time.Since(start): the duration an attempt is measured to take.
Elapsed == 7

StatusCodes == {101, 200, 399, 400}
NotAfter    == "2027-01-01T00:00:00Z"

\* What the outside world does to one attempt: the error of the transport
\* (client.Do, net.DialTimeout, cmd.Run, net.LookupHost), the response
\* (status code, peer certificates' NotAfter, body, error of the body read)
\* and the error of the store lookup.
NoOutcome ==
    [err |-> <<>>, code |-> 0, certs |-> <<>>, body |-> <<>>, readErr |-> <<>>,
     storeErr |-> <<>>]

TransportErrors(type) ==
    CASE type = "tcp"  -> {"dial tcp: connect: connection refused", "dial tcp: i/o timeout"}
      [] type = "ping" -> {"exit status 1", "signal: killed"}
      [] type = "dns"  -> {"lookup example.invalid: no such host"}
      [] OTHER         -> {"Get: dial tcp: connect: connection refused",
                           "Get: context deadline exceeded",
                           "Get: x509: certificate has expired"}

ReadErrors  == {"unexpected EOF"}
StoreErrors == {"database is locked"}

\* The server behind a URL: the status codes, certificates and bodies it
\* answers with.  The server at SteadyURL speaks plain HTTP and always
\* answers 200, with one of three pages.
Server(url) ==
    IF url = SteadyURL
    THEN [codes  |-> {200},
          certs  |-> {<<>>},
          bodies |-> { <<Node("b", "ok")>>, <<Node("", "ok")>>,
                       <<Node("b", " a "), Node("", "ok"), Node("b", "c")>> }]
    ELSE [codes  |-> StatusCodes,
          certs  |-> {<<>>, <<NotAfter>>},
          bodies |-> Bodies]

Outcomes(target) ==
    {[NoOutcome EXCEPT !.err = <<m>>] : m \in TransportErrors(target.Type)}
    \cup
    (IF target.Type \in {"tcp", "ping", "dns"}
     THEN {NoOutcome}
     ELSE LET srv == Server(target.URL)
          IN  {[NoOutcome EXCEPT !.code = c, !.certs = k, !.readErr = <<m>>] :
                  c \in srv.codes, k \in srv.certs, m \in ReadErrors}
              \cup
              {[NoOutcome EXCEPT !.code = c, !.certs = k, !.body = b, !.storeErr = e] :
                  c \in srv.codes, k \in srv.certs, b \in srv.bodies,
                  e \in {<<>>} \cup {<<m>> : m \in StoreErrors}})

\* http.NewRequest("GET", url, nil): fails when the URL does not parse.
NewRequest(url) ==
    IF url = ":bad" THEN <<"parse \":bad\": missing protocol scheme">> ELSE <<>>

\* db.GetLatestSnapshots(targetID, n): the n most recent snapshots of the
\* target, most recent first, or an error.
GetLatestSnapshots(st, id, n, storeErr) ==
    IF storeErr # <<>>
    THEN [snaps |-> <<>>, err |-> storeErr]
    ELSE [snaps |-> SubSeq(st[id], 1, IF Len(st[id]) < n THEN Len(st[id]) ELSE n),
          err |-> <<>>]

-----------------------------------------------------------------------------
\* The probers.  Each returns the Result of the attempt and whether the
\* attempt called the store.

Probe(res, consulted) == [res |-> res, consulted |-> consulted]

\* The content the selector leaves of the body.
\* Faulty variant: a configured selector replaces the content whatever it
\* matched.
ExtractContentNoFallback(target, body) ==
    IF target.Selector # ""
    THEN Join(Selected(body, target.Selector), "\n")
    ELSE Raw(body)

ExtractContent(target, body) ==
    LET content  == Raw(body)
        selected == Selected(body, target.Selector)
    IN  IF target.Selector # "" /\ Len(selected) > 0
        THEN Join(selected, "\n")
        ELSE content

\* Faulty variant: BodyMatch is set whether or not Expect is configured.
KeywordMatchAlways(target, content) == <<Contains(content, target.Expect)>>

\* The expected-keyword check.
KeywordMatch(target, content) ==
    IF target.Expect # "" THEN <<Contains(content, target.Expect)>> ELSE <<>>

\* Faulty variant: the snapshot is compared before the keyword is checked.
DetermineStatusSnapshotFirst(target, result, net, st) ==
    IF result.StatusCode >= 200 /\ result.StatusCode < 400
    THEN LET got == GetLatestSnapshots(st, target.ID, 1, net.storeErr)
         IN  IF got.err = <<>> /\ Len(got.snaps) > 0
             THEN IF got.snaps[1].Hash # result.ContentHash
                  THEN Probe([result EXCEPT !.Status = "changed"], TRUE)
                  ELSE Probe([result EXCEPT !.Status = "unchanged"], TRUE)
             ELSE IF result.BodyMatch # <<>> /\ ~result.BodyMatch[1]
                  THEN Probe([result EXCEPT
                                !.Status = "down",
                                !.Error = "expected keyword " \o Quote(target.Expect)
                                          \o " not found"], TRUE)
                  ELSE Probe([result EXCEPT !.Status = "up"], TRUE)
    ELSE Probe([result EXCEPT !.Status = "down",
                              !.Error = "HTTP " \o FormatInt(result.StatusCode)],
               FALSE)

\* Faulty variant: the range test reads code <= 400.
DetermineStatusInclusive(target, result, net, st) ==
    IF result.StatusCode >= 200 /\ result.StatusCode <= 400
    THEN IF result.BodyMatch # <<>> /\ ~result.BodyMatch[1]
         THEN Probe([result EXCEPT
                       !.Status = "down",
                       !.Error = "expected keyword " \o Quote(target.Expect)
                                 \o " not found"], FALSE)
         ELSE LET got == GetLatestSnapshots(st, target.ID, 1, net.storeErr)
              IN  IF got.err = <<>> /\ Len(got.snaps) > 0
                  THEN IF got.snaps[1].Hash # result.ContentHash
                       THEN Probe([result EXCEPT !.Status = "changed"], TRUE)
                       ELSE Probe([result EXCEPT !.Status = "unchanged"], TRUE)
                  ELSE Probe([result EXCEPT !.Status = "up"], TRUE)
    ELSE Probe([result EXCEPT !.Status = "down",
                              !.Error = "HTTP " \o FormatInt(result.StatusCode)],
               FALSE)

\* Faulty variant: a failing store lookup fails the check.
DetermineStatusStoreFails(target, result, net, st) ==
    IF result.StatusCode >= 200 /\ result.StatusCode < 400
    THEN IF result.BodyMatch # <<>> /\ ~result.BodyMatch[1]
         THEN Probe([result EXCEPT
                       !.Status = "down",
                       !.Error = "expected keyword " \o Quote(target.Expect)
                                 \o " not found"], FALSE)
         ELSE LET got == GetLatestSnapshots(st, target.ID, 1, net.storeErr)
              IN  IF got.err # <<>>
                  THEN Probe([result EXCEPT !.Status = "error",
                                            !.Error = got.err[1]], TRUE)
                  ELSE IF Len(got.snaps) > 0
                  THEN IF got.snaps[1].Hash # result.ContentHash
                       THEN Probe([result EXCEPT !.Status = "changed"], TRUE)
                       ELSE Probe([result EXCEPT !.Status = "unchanged"], TRUE)
                  ELSE Probe([result EXCEPT !.Status = "up"], TRUE)
    ELSE Probe([result EXCEPT !.Status = "down",
                              !.Error = "HTTP " \o FormatInt(result.StatusCode)],
               FALSE)

\* Faulty variant: the hashes are compared with == in place of !=.
DetermineStatusSwapped(target, result, net, st) ==
    IF result.StatusCode >= 200 /\ result.StatusCode < 400
    THEN IF result.BodyMatch # <<>> /\ ~result.BodyMatch[1]
         THEN Probe([result EXCEPT
                       !.Status = "down",
                       !.Error = "expected keyword " \o Quote(target.Expect)
                                 \o " not found"], FALSE)
         ELSE LET got == GetLatestSnapshots(st, target.ID, 1, net.storeErr)
              IN  IF got.err = <<>> /\ Len(got.snaps) > 0
                  THEN IF got.snaps[1].Hash = result.ContentHash
                       THEN Probe([result EXCEPT !.Status = "changed"], TRUE)
                       ELSE Probe([result EXCEPT !.Status = "unchanged"], TRUE)
                  ELSE Probe([result EXCEPT !.Status = "up"], TRUE)
    ELSE Probe([result EXCEPT !.Status = "down",
                              !.Error = "HTTP " \o FormatInt(result.StatusCode)],
               FALSE)

\* "Determine status": result holds StatusCode, Content, ContentHash, BodyMatch.
DetermineStatus(target, result, net, st) ==
    IF result.StatusCode >= 200 /\ result.StatusCode < 400
    THEN IF result.BodyMatch # <<>> /\ ~result.BodyMatch[1]
         THEN Probe([result EXCEPT
                       !.Status = "down",
                       !.Error = "expected keyword " \o Quote(target.Expect)
                                 \o " not found"], FALSE)
         ELSE LET got == GetLatestSnapshots(st, target.ID, 1, net.storeErr)
              IN  IF got.err = <<>> /\ Len(got.snaps) > 0
                  THEN IF got.snaps[1].Hash # result.ContentHash
                       THEN Probe([result EXCEPT !.Status = "changed"], TRUE)
                       ELSE Probe([result EXCEPT !.Status = "unchanged"], TRUE)
                  ELSE Probe([result EXCEPT !.Status = "up"], TRUE)
    ELSE Probe([result EXCEPT !.Status = "down",
                              !.Error = "HTTP " \o FormatInt(result.StatusCode)],
               FALSE)

checkHTTP(target, net, st) ==
    LET reqErr == NewRequest(target.URL)
    IN  IF reqErr # <<>>
        THEN Probe([ZeroResult EXCEPT !.Status = "error", !.Error = reqErr[1],
                                      !.ResponseTime = Elapsed], FALSE)
        ELSE
        LET r1 == [ZeroResult EXCEPT !.ResponseTime = Elapsed]
        IN  IF net.err # <<>>
            THEN Probe([r1 EXCEPT !.Status = "down", !.Error = net.err[1]], FALSE)
            ELSE
            LET r2 == [r1 EXCEPT !.StatusCode = net.code,
                                 !.SSLExpiry = IF Len(net.certs) > 0
                                               THEN <<net.certs[1]>> ELSE <<>>]
            IN  IF net.readErr # <<>>
                THEN Probe([r2 EXCEPT !.Status = "error",
                                      !.Error = "failed to read body: "
                                                \o net.readErr[1]], FALSE)
                ELSE
                LET content == ExtractContent(target, net.body)
                    r3 == [r2 EXCEPT !.Content = content,
                                     !.ContentHash = Sha256Hex(content),
                                     !.BodyMatch = KeywordMatch(target, content)]
                IN  DetermineStatus(target, r3, net, st)

checkTCP(target, net) ==
    LET r1 == [ZeroResult EXCEPT !.ResponseTime = Elapsed]
    IN  IF net.err # <<>>
        THEN Probe([r1 EXCEPT !.Status = "down", !.Error = net.err[1]], FALSE)
        ELSE Probe([r1 EXCEPT !.Status = "up"], FALSE)

\* Faulty variant: a failed ping leaves Error empty.
checkPingSilent(target, net) ==
    LET r1 == [ZeroResult EXCEPT !.ResponseTime = Elapsed]
    IN  IF net.err # <<>>
        THEN Probe([r1 EXCEPT !.Status = "down"], FALSE)
        ELSE Probe([r1 EXCEPT !.Status = "up"], FALSE)

checkPing(target, net) ==
    LET r1 == [ZeroResult EXCEPT !.ResponseTime = Elapsed]
    IN  IF net.err # <<>>
        THEN Probe([r1 EXCEPT !.Status = "down", !.Error = "ping failed"], FALSE)
        ELSE Probe([r1 EXCEPT !.Status = "up"], FALSE)

checkDNS(target, net) ==
    LET r1 == [ZeroResult EXCEPT !.ResponseTime = Elapsed]
    IN  IF net.err # <<>>
        THEN Probe([r1 EXCEPT !.Status = "down", !.Error = net.err[1]], FALSE)
        ELSE Probe([r1 EXCEPT !.Status = "up"], FALSE)

\* Faulty variant: an unrecognized Type is not probed at all.
checkOnceNoDefault(target, net, st) ==
    CASE target.Type \in {"http", "https"} -> checkHTTP(target, net, st)
      [] target.Type = "tcp"               -> checkTCP(target, net)
      [] target.Type = "ping"              -> checkPing(target, net)
      [] target.Type = "dns"               -> checkDNS(target, net)
      [] OTHER                             -> Probe(ZeroResult, FALSE)

\* Faulty variant: the tcp case is missing, so tcp falls to the HTTP default.
checkOnceNoTCP(target, net, st) ==
    CASE target.Type \in {"http", "https"} -> checkHTTP(target, net, st)
      [] target.Type = "ping"              -> checkPing(target, net)
      [] target.Type = "dns"               -> checkDNS(target, net)
      [] OTHER                             -> checkHTTP(target, net, st)

checkOnce(target, net, st) ==
    CASE target.Type \in {"http", "https"} -> checkHTTP(target, net, st)
      [] target.Type = "tcp"               -> checkTCP(target, net)
      [] target.Type = "ping"              -> checkPing(target, net)
      [] target.Type = "dns"               -> checkDNS(target, net)
      [] OTHER                             -> checkHTTP(target, net, st)

\* The statuses after which Check returns at once.
IsSuccess(status) == status \in {"up", "unchanged", "changed"}

\* Faulty variant: Retries is used as it is.
EffectiveRetriesUnclamped(target) == target.Retries

\* retries := target.Retries; if retries <= 0 { retries = 1 }
EffectiveRetries(target) == IF target.Retries <= 0 THEN 1 ELSE target.Retries

-----------------------------------------------------------------------------
\* Check, one call per execution context

Ctx == {"c1", "c2"}
IDs == {1, 2}

Snapshot(content) == [Hash |-> Sha256Hex(content)]

VARIABLES
    target,     \* target[p]: the *db.Target the context checks
    store,      \* store[id]: the snapshots of target id, most recent first
    pc,         \* pc[p]: "off", "idle", "loop", "sleep", "done"
    retries,    \* retries[p], i[p], result[p]: the locals of Check
    i,
    result,     \* <<>> is the nil *Result
    ret,        \* ret[p]: <<r>> once Check has returned r
    attempts,   \* attempts[p]: per checkOnce of the call, its Status and store use
    last,       \* last[p]: <<a>>, what the latest checkOnce was given and returned
    pauses,     \* pauses[p]: the durations of the time.Sleep calls of the call
    calls,      \* calls[p]: the Check calls the context has made
    prev,       \* prev[p]: <<body>>, the body of the observation last saved
    waited,     \* waited[p]: seconds the attempt in flight has been blocked
    trig,       \* the trigger engine: the call made last and what it returned
    stored,     \* the edit command: the target record the store holds
    cmd         \* the edit command: the command run last and how it ended

checkVars ==
    <<target, store, pc, retries, i, result, ret, attempts, last, pauses, calls, prev,
      waited>>

\* The variables of the trigger engine and of the edit command.
otherVars == <<trig, stored, cmd>>

vars ==
    <<target, store, pc, retries, i, result, ret, attempts, last, pauses, calls, prev,
      waited, trig, stored, cmd>>

Targets(id) ==
    [ID : {id}, Type : TargetTypes, URL : URLs \cup {SteadyURL}, Retries : RetryValues,
     Selector : Selectors, Expect : Expects]

InitialStores ==
    { <<>>, <<Snapshot("ok")>>, <<Snapshot("a\nc"), Snapshot("ok")>> }

\* The trigger engine and the edit command at rest.
OthersOff ==
    /\ trig = [op |-> "off"]
    /\ stored = [op |-> "off"]
    /\ cmd = [op |-> "off"]

IdleLocals ==
    /\ retries = [p \in Ctx |-> 0]
    /\ i = [p \in Ctx |-> 0]
    /\ result = [p \in Ctx |-> <<>>]
    /\ ret = [p \in Ctx |-> <<>>]
    /\ attempts = [p \in Ctx |-> <<>>]
    /\ last = [p \in Ctx |-> <<>>]
    /\ pauses = [p \in Ctx |-> <<>>]
    /\ calls = [p \in Ctx |-> 0]
    /\ prev = [p \in Ctx |-> <<>>]
    /\ waited = [p \in Ctx |-> 0]

\* One context, any target, the store holding none, one or two snapshots of it.
Init ==
    /\ \E t \in Targets(1) : t.URL \in URLs /\ target = [p \in Ctx |-> t]
    /\ \E s \in InitialStores : store = [id \in IDs |-> IF id = 1 THEN s ELSE <<Snapshot("<b> </b>")>>]
    /\ pc = [p \in Ctx |-> IF p = "c1" THEN "idle" ELSE "off"]
    /\ IdleLocals
    /\ OthersOff

\* time.Sleep(2 * time.Second), line 42: the seconds of one pause.
SleepSeconds == 2

\* Check is entered: lines 30-35.
Call(p) ==
    /\ pc[p] = "idle"
    /\ calls[p] < MaxCalls
    /\ calls' = [calls EXCEPT ![p] = @ + 1]
    /\ retries' = [retries EXCEPT ![p] = EffectiveRetries(target[p])]
    /\ i' = [i EXCEPT ![p] = 0]
    /\ result' = [result EXCEPT ![p] = <<>>]
    /\ ret' = [ret EXCEPT ![p] = <<>>]
    /\ attempts' = [attempts EXCEPT ![p] = <<>>]
    /\ last' = [last EXCEPT ![p] = <<>>]
    /\ pauses' = [pauses EXCEPT ![p] = <<>>]
    /\ pc' = [pc EXCEPT ![p] = "loop"]
    /\ UNCHANGED <<target, store, prev, waited, otherVars>>

\* What an attempt saw of the outside: the store's answer only when asked.
Seen(net, consulted) == IF consulted THEN net ELSE [net EXCEPT !.storeErr = <<>>]

\* Faulty variant: only the first attempt's Result is kept.
AssignResultFirst(old, new) == IF old = <<>> THEN <<new>> ELSE old

\* result = checkOnce(target), line 37: the variable now points to the new Result.
AssignResult(old, new) == <<new>>

\* Faulty variant: result is one variable shared by every call.
ResultSlotShared(p) == "c1"

\* var result *Result, line 35: a local of the call, one per call.
ResultSlot(p) == p

\* Faulty variant: the pause is taken after the last attempt too.
PauseDueAlways(n, max) == n < max

\* if i < retries-1, line 41
PauseDue(n, max) == n < max - 1

\* checkOnce returns with the outside having done net: lines 37-43, up to
\* the pause.
Finish(p, net) ==
    LET probe == checkOnce(target[p], net, store)
    IN  /\ result' = [result EXCEPT ![ResultSlot(p)] = AssignResult(@, probe.res)]
        /\ attempts' = [attempts EXCEPT ![p] =
                          Append(@, [Status |-> probe.res.Status,
                                     consulted |-> probe.consulted])]
        /\ last' = [last EXCEPT ![p] =
                      <<[net |-> Seen(net, probe.consulted), res |-> probe.res]>>]
        /\ IF IsSuccess(probe.res.Status)
           THEN /\ ret' = [ret EXCEPT ![p] = result'[ResultSlot(p)]]
                /\ pc' = [pc EXCEPT ![p] = "done"]
                /\ i' = i
           ELSE IF PauseDue(i[p], retries[p])
           THEN /\ pc' = [pc EXCEPT ![p] = "sleep"]
                /\ UNCHANGED <<ret, i>>
           ELSE /\ i' = [i EXCEPT ![p] = @ + 1]
                /\ pc' = [pc EXCEPT ![p] = "loop"]
                /\ UNCHANGED ret

\* One iteration of the loop: lines 36-43, up to the pause.
Attempt(p) ==
    /\ pc[p] = "loop"
    /\ i[p] < retries[p]
    /\ \E net \in Outcomes(target[p]) : Finish(p, net)
    /\ UNCHANGED <<target, store, retries, pauses, calls, prev, waited, otherVars>>

\* time.Sleep(2 * time.Second) returns, and i++: lines 42 and 36.
Sleep(p) ==
    /\ pc[p] = "sleep"
    /\ pauses' = [pauses EXCEPT ![p] = Append(@, SleepSeconds)]
    /\ i' = [i EXCEPT ![p] = @ + 1]
    /\ pc' = [pc EXCEPT ![p] = "loop"]
    /\ UNCHANGED <<target, store, retries, result, ret, attempts, last, calls, prev,
                   waited, otherVars>>

\* The loop condition fails: return result, line 45.
Exit(p) ==
    /\ pc[p] = "loop"
    /\ i[p] >= retries[p]
    /\ ret' = [ret EXCEPT ![p] = result[ResultSlot(p)]]
    /\ pc' = [pc EXCEPT ![p] = "done"]
    /\ UNCHANGED <<target, store, retries, i, result, attempts, last, pauses,
                   calls, prev, waited, otherVars>>

Next == \E p \in Ctx : Call(p) \/ Attempt(p) \/ Sleep(p) \/ Exit(p)

Spec == Init /\ [][Next]_vars

-----------------------------------------------------------------------------
\* A caller that checks one target several times in a row and keeps the
\* observations as the target's snapshots.

\* The caller stores the returned observation as the latest snapshot.
SaveSnapshot(p) ==
    /\ pc[p] = "done"
    /\ ret[p] # <<>>
    /\ ret[p][1].ContentHash # ""
    /\ store' = [store EXCEPT ![target[p].ID] = <<[Hash |-> ret[p][1].ContentHash]>> \o @]
    /\ prev' = [prev EXCEPT ![p] = <<last[p][1].net.body>>]
    /\ pc' = [pc EXCEPT ![p] = "idle"]
    /\ UNCHANGED <<target, retries, i, result, ret, attempts, last, pauses, calls,
                   waited, otherVars>>

\* The caller drops the returned observation.
Release(p) ==
    /\ pc[p] = "done"
    /\ pc' = [pc EXCEPT ![p] = "idle"]
    /\ UNCHANGED <<target, store, retries, i, result, ret, attempts, last, pauses,
                   calls, prev, waited, otherVars>>

\* An HTTP target without Expect, served by the steady server.
InitSeq ==
    /\ \E t \in Targets(1) :
         /\ t.Type = "http" /\ t.URL = SteadyURL /\ t.Expect = ""
         /\ target = [p \in Ctx |-> t]
    /\ \E s \in {<<>>, <<Snapshot("ok")>>} :
         store = [id \in IDs |-> IF id = 1 THEN s ELSE <<Snapshot("<b> </b>")>>]
    /\ pc = [p \in Ctx |-> IF p = "c1" THEN "idle" ELSE "off"]
    /\ IdleLocals
    /\ OthersOff

NextSeq == \E p \in Ctx :
    Call(p) \/ Attempt(p) \/ Sleep(p) \/ Exit(p) \/ SaveSnapshot(p) \/ Release(p)

SpecSeq == InitSeq /\ [][NextSeq]_vars

-----------------------------------------------------------------------------
\* Check with its blocking points: an attempt is begun, blocks in the network
\* operation of its prober while the seconds pass, and ends when the
\* operation answers or when its deadline is reached.

\* 30 * time.Second, line 69; 10 * time.Second, line 171; "-W", "5", line 191
HTTPDefaultSeconds == 30
DialDefaultSeconds == 10
PingWaitSeconds == 5

\* The seconds after which the resolver behind net.LookupHost gives up (its
\* own setting; the call of line 208 passes none).
ResolverSeconds == 10

\* target.Timeout
Timeouts == {0 - 1, 0, 2}

\* Faulty variant: target.Timeout is handed on as it is; a client or dialer
\* with a timeout of zero or less waits without limit.
DeadlineUnguarded(t) ==
    IF t.Type = "ping" THEN PingWaitSeconds
    ELSE IF t.Type = "dns" THEN ResolverSeconds
    ELSE t.Timeout

\* The seconds after which the blocking operation of an attempt on t is cut
\* short: lines 67-73, 169-174, 191, 208.  Zero or less stands for no limit.
Deadline(t) ==
    IF t.Type = "ping" THEN PingWaitSeconds
    ELSE IF t.Type = "dns" THEN ResolverSeconds
    ELSE IF t.Type = "tcp" THEN (IF t.Timeout <= 0 THEN DialDefaultSeconds ELSE t.Timeout)
    ELSE IF t.Timeout <= 0 THEN HTTPDefaultSeconds ELSE t.Timeout

\* What the blocking operation gives when it is cut short: the error of
\* client.Do or of io.ReadAll, of net.DialTimeout, of cmd.Run, of
\* net.LookupHost.
TimeoutOutcomes(t) ==
    IF t.Type = "tcp" THEN {[NoOutcome EXCEPT !.err = <<"dial tcp: i/o timeout">>]}
    ELSE IF t.Type = "ping" THEN {[NoOutcome EXCEPT !.err = <<"exit status 1">>]}
    ELSE IF t.Type = "dns"
    THEN {[NoOutcome EXCEPT !.err = <<"lookup example.invalid: i/o timeout">>]}
    ELSE {[NoOutcome EXCEPT !.err = <<"Get: context deadline exceeded">>],
          [NoOutcome EXCEPT !.code = 200,
                            !.readErr = <<"context deadline exceeded">>]}

\* One context, a target of any type with any Timeout behind the steady
\* address, the store holding one snapshot.
InitLive ==
    /\ \E t \in Targets(1), timeout \in Timeouts :
         /\ t.URL = SteadyURL
         /\ t.Type \in {"http", "tcp", "ping", "dns"}
         /\ t.Selector = ""
         /\ target = [p \in Ctx |->
                         [ID |-> t.ID, Type |-> t.Type, URL |-> t.URL,
                          Retries |-> t.Retries, Selector |-> t.Selector,
                          Expect |-> t.Expect, Timeout |-> timeout]]
    /\ store = [id \in IDs |-> <<Snapshot("ok")>>]
    /\ pc = [p \in Ctx |-> IF p = "c1" THEN "idle" ELSE "off"]
    /\ IdleLocals
    /\ OthersOff

\* An attempt is begun: checkOnce is called and reaches its blocking
\* operation.
Begin(p) ==
    /\ pc[p] = "loop"
    /\ i[p] < retries[p]
    /\ pc' = [pc EXCEPT ![p] = "blocked"]
    /\ waited' = [waited EXCEPT ![p] = 0]
    /\ UNCHANGED <<target, store, retries, i, result, ret, attempts, last, pauses,
                   calls, prev, otherVars>>

\* A second passes with the operation blocked and its deadline ahead.
Tick(p) ==
    /\ pc[p] = "blocked"
    /\ Deadline(target[p]) > 0
    /\ waited[p] < Deadline(target[p])
    /\ waited' = [waited EXCEPT ![p] = @ + 1]
    /\ UNCHANGED <<target, store, pc, retries, i, result, ret, attempts, last, pauses,
                   calls, prev, otherVars>>

\* The operation answers, one way or another.
Respond(p) ==
    /\ pc[p] = "blocked"
    /\ \E net \in Outcomes(target[p]) : Finish(p, net)
    /\ UNCHANGED <<target, store, retries, pauses, calls, prev, waited, otherVars>>

\* The deadline is reached: the operation returns its timeout error.
TimesOut(p) ==
    /\ pc[p] = "blocked"
    /\ Deadline(target[p]) > 0
    /\ waited[p] = Deadline(target[p])
    /\ \E net \in TimeoutOutcomes(target[p]) : Finish(p, net)
    /\ UNCHANGED <<target, store, retries, pauses, calls, prev, waited, otherVars>>

NextLive == \E p \in Ctx :
    Call(p) \/ Begin(p) \/ Tick(p) \/ Respond(p) \/ TimesOut(p) \/ Sleep(p) \/ Exit(p)

\* The goroutine of a call runs on, the time passes and a deadline that is
\* reached takes effect; nothing makes the network answer.
SpecLive ==
    /\ InitLive
    /\ [][NextLive]_vars
    /\ \A p \in Ctx :
         /\ WF_vars(Begin(p))
         /\ WF_vars(Tick(p))
         /\ WF_vars(TimesOut(p))
         /\ WF_vars(Sleep(p))
         /\ WF_vars(Exit(p))

-----------------------------------------------------------------------------
\* Check called from two execution contexts at once, for different targets.

\* The targets of the two contexts: different IDs, the steady address.
ConcTargets(id) ==
    {t \in Targets(id) : /\ t.URL = SteadyURL
                         /\ t.Selector = ""
                         /\ t.Type \in (IF id = 1 THEN {"http"} ELSE {"http", "tcp"})}

InitConc ==
    /\ \E t1 \in ConcTargets(1), t2 \in ConcTargets(2) :
         target = [p \in Ctx |-> IF p = "c1" THEN t1 ELSE t2]
    /\ store = [id \in IDs |-> IF id = 1 THEN <<Snapshot("ok")>> ELSE <<>>]
    /\ pc = [p \in Ctx |-> "idle"]
    /\ IdleLocals
    /\ OthersOff

\* The steps of the two calls interleave in any order.
NextConc == \E p \in Ctx : Call(p) \/ Attempt(p) \/ Sleep(p) \/ Exit(p)

SpecConc == InitConc /\ [][NextConc]_vars

-----------------------------------------------------------------------------
\* Regular expressions: regexp.Compile and (*Regexp).MatchString, for the
\* patterns built from literals, '.', '^', '$', bracket classes, the escapes
\* of punctuation and \d, and the operators '*', '+' and '?' (no groups, no
\* alternation, no counted repetition: none of '(', ')', '|', '{', '}').

At(s, k) == SubSeq(s, k, k)

\* The printable ASCII characters in code order, from the space on (without
\* the backquote).
Ascii ==
    " !\"#$%&'()*+,-./0123456789:;<=>?@ABCDEFGHIJKLMNOPQRSTUVWXYZ[\\]^_abcdefghijklmnopqrstuvwxyz{|}~"

Code(c) == CHOOSE k \in 1..Len(Ascii) : At(Ascii, k) = c

CharRange(lo, hi) == { At(Ascii, k) : k \in Code(lo)..Code(hi) }

IsAlnum(c) ==
    c \in CharRange("0", "9") \cup CharRange("A", "Z") \cup CharRange("a", "z")

\* Letters that name no escape: a backslash before one is an error.  (A
\* backslash before any other letter or a digit is outside these patterns.)
NoSuchEscape == {"e", "g", "h", "i", "j", "k", "l", "m", "o", "q", "u", "y"}

\* &syntax.Error{Code: code, Expr: expr}
RegexpError(code, expr) == [Code |-> code, Expr |-> expr]

NoRegexpError == [Code |-> "", Expr |-> ""]

\* One piece of a parsed pattern: a character set (negated or not), or an
\* empty-width assertion, with the repetition operator applied to it.
Piece(kind, neg, set) == [kind |-> kind, neg |-> neg, set |-> set, q |-> ""]

\* parseClass: the members of a bracket expression from position k on.
\* first: no member has been read yet, so a ']' is a literal.
RECURSIVE ParseClass(_, _, _, _, _)
ParseClass(pat, open, k, first, set) ==
    IF k > Len(pat)
    THEN [err |-> RegexpError("missing closing ]", SubSeq(pat, open, Len(pat))),
          next |-> k, set |-> set]
    ELSE IF At(pat, k) = "]" /\ ~first
    THEN [err |-> NoRegexpError, next |-> k + 1, set |-> set]
    ELSE LET esc == At(pat, k) = "\\"
             j   == IF esc THEN k + 1 ELSE k
         IN  IF j > Len(pat)
             THEN [err |-> RegexpError("missing closing ]", SubSeq(pat, open, Len(pat))),
                   next |-> j, set |-> set]
             ELSE IF esc /\ At(pat, j) = "d"
             THEN ParseClass(pat, open, j + 1, FALSE, set \cup CharRange("0", "9"))
             ELSE IF esc /\ At(pat, j) \in NoSuchEscape
             THEN [err |-> RegexpError("invalid escape sequence", SubSeq(pat, k, j)),
                   next |-> j, set |-> set]
             ELSE IF j + 2 <= Len(pat) /\ At(pat, j + 1) = "-" /\ At(pat, j + 2) # "]"
             THEN IF Code(At(pat, j + 2)) < Code(At(pat, j))
                  THEN [err |-> RegexpError("invalid character class range",
                                            SubSeq(pat, k, j + 2)),
                        next |-> j, set |-> set]
                  ELSE ParseClass(pat, open, j + 3, FALSE,
                                  set \cup CharRange(At(pat, j), At(pat, j + 2)))
             ELSE ParseClass(pat, open, j + 1, FALSE, set \cup {At(pat, j)})

\* syntax.Parse with the Perl flags: the pieces of pat from position k on.
\* rep: where the repetition operator just read began, 0 when the token just
\* read was not one.
RECURSIVE Parse(_, _, _, _)

\* A bracket expression has been read: the parse goes on behind it.
AfterClass(pat, pieces, neg, cls) ==
    IF cls.err # NoRegexpError THEN [err |-> cls.err, pieces |-> <<>>]
    ELSE Parse(pat, cls.next, Append(pieces, Piece("set", neg, cls.set)), 0)

Parse(pat, k, pieces, rep) ==
    IF k > Len(pat) THEN [err |-> NoRegexpError, pieces |-> pieces]
    ELSE LET c == At(pat, k)
         IN  IF c \in {"*", "+", "?"}
             THEN LET lazy == k + 1 <= Len(pat) /\ At(pat, k + 1) = "?"
                      end  == IF lazy THEN k + 1 ELSE k
                      n    == Len(pieces)
                  IN  IF rep # 0
                      THEN [err |-> RegexpError("invalid nested repetition operator",
                                                SubSeq(pat, rep, end)),
                            pieces |-> <<>>]
                      ELSE IF n = 0
                      THEN [err |-> RegexpError("missing argument to repetition operator",
                                                SubSeq(pat, k, end)),
                            pieces |-> <<>>]
                      ELSE Parse(pat, end + 1, [pieces EXCEPT ![n].q = c], k)
             ELSE IF c = "[" /\ k + 1 <= Len(pat) /\ At(pat, k + 1) = "^"
             THEN AfterClass(pat, pieces, TRUE, ParseClass(pat, k, k + 2, TRUE, {}))
             ELSE IF c = "["
             THEN AfterClass(pat, pieces, FALSE, ParseClass(pat, k, k + 1, TRUE, {}))
             ELSE IF c = "\\"
             THEN IF k = Len(pat)
                  THEN [err |-> RegexpError("trailing backslash at end of expression", ""),
                        pieces |-> <<>>]
                  ELSE IF At(pat, k + 1) = "d"
                  THEN Parse(pat, k + 2,
                             Append(pieces, Piece("set", FALSE, CharRange("0", "9"))), 0)
                  ELSE IF At(pat, k + 1) \in NoSuchEscape
                  THEN [err |-> RegexpError("invalid escape sequence", SubSeq(pat, k, k + 1)),
                        pieces |-> <<>>]
                  ELSE CASE ~IsAlnum(At(pat, k + 1)) ->
                         Parse(pat, k + 2,
                               Append(pieces, Piece("set", FALSE, {At(pat, k + 1)})), 0)
             ELSE IF c = "." THEN Parse(pat, k + 1, Append(pieces, Piece("set", TRUE, {"\n"})), 0)
             ELSE IF c = "^" THEN Parse(pat, k + 1, Append(pieces, Piece("bol", FALSE, {})), 0)
             ELSE IF c = "$" THEN Parse(pat, k + 1, Append(pieces, Piece("eol", FALSE, {})), 0)
             ELSE Parse(pat, k + 1, Append(pieces, Piece("set", FALSE, {c})), 0)

\* regexp.Compile(pat): the compiled pieces, or the error
Compile(pat) == Parse(pat, 1, <<>>, 0)

\* One occurrence of piece at position pos of s: the positions it can end at.
Once(piece, s, pos) ==
    IF piece.kind = "bol" THEN (IF pos = 1 THEN {pos} ELSE {})
    ELSE IF piece.kind = "eol" THEN (IF pos = Len(s) + 1 THEN {pos} ELSE {})
    ELSE IF pos <= Len(s) /\ ((At(s, pos) \in piece.set) # piece.neg)
    THEN {pos + 1} ELSE {}

\* Any number of occurrences of piece from the positions in from.
RECURSIVE Many(_, _, _)

Grown(piece, s, from, more) == IF more = from THEN from ELSE Many(piece, s, more)

Many(piece, s, from) ==
    Grown(piece, s, from, from \cup UNION { Once(piece, s, pos) : pos \in from })

\* The piece with its repetition operator, from the positions in from.
Repeated(piece, s, from) ==
    IF piece.q = "*" THEN Many(piece, s, from)
    ELSE IF piece.q = "+" THEN Many(piece, s, UNION { Once(piece, s, pos) : pos \in from })
    ELSE (IF piece.q = "?" THEN from ELSE {})
             \cup UNION { Once(piece, s, pos) : pos \in from }

\* The positions of s at which pieces j.. can end, starting from those in from.
RECURSIVE Run(_, _, _, _)
Run(pieces, j, s, from) ==
    IF j > Len(pieces) THEN from
    ELSE Run(pieces, j + 1, s, Repeated(pieces[j], s, from))

\* re.MatchString(s): the pattern matches somewhere in s
MatchString(pieces, s) == Run(pieces, 1, s, 1..(Len(s) + 1)) # {}

-----------------------------------------------------------------------------
\* JSON: json.Marshal of a Rule and json.Unmarshal into a Rule.  The strings
\* are of printable ASCII characters (without the backquote) and "\n", "\t",
\* "\r".

\* type Rule struct, and its zero value
Rule(typ, val) == [Type |-> typ, Value |-> val]

ZeroRule == Rule("", "")

\* Faulty variant: the text of a string is written between the quotes as it
\* is, with nothing escaped.
EscapeJSONNone(s) == s

\* The body of a JSON string as encoding/json writes it: the quote, the
\* backslash and the control characters escaped, and '<', '>', '&' written
\* as \u escapes.
RECURSIVE EscapeJSON(_)
EscapeJSON(s) ==
    IF Len(s) = 0 THEN ""
    ELSE LET c == At(s, 1)
             e == IF c = "\"" THEN "\\\""
                  ELSE IF c = "\\" THEN "\\\\"
                  ELSE IF c = "\n" THEN "\\n"
                  ELSE IF c = "\t" THEN "\\t"
                  ELSE IF c = "\r" THEN "\\r"
                  ELSE IF c = "<" THEN "\\u003c"
                  ELSE IF c = ">" THEN "\\u003e"
                  ELSE IF c = "&" THEN "\\u0026"
                  ELSE c
         IN  e \o EscapeJSON(SubSeq(s, 2, Len(s)))

\* json.Marshal(r) of a Rule: the fields in declaration order under their
\* json tags.
Marshal(r) ==
    "{\"type\":\"" \o EscapeJSON(r.Type) \o "\",\"value\":\"" \o EscapeJSON(r.Value) \o "\"}"

\* What the decoder has read: ok (FALSE on a syntax error), the position
\* after it, the kind of value, the text of a string, the members of an
\* object.
Read(ok, next, kind, str, fields) ==
    [ok |-> ok, next |-> next, kind |-> kind, str |-> str, fields |-> fields]

Invalid == Read(FALSE, 0, "", "", <<>>)

RECURSIVE SkipSpace(_, _)
SkipSpace(s, k) ==
    IF k <= Len(s) /\ IsSpace(At(s, k)) THEN SkipSpace(s, k + 1) ELSE k

IsDigit(c) == c \in {"0", "1", "2", "3", "4", "5", "6", "7", "8", "9"}

RECURSIVE SkipDigits(_, _)
SkipDigits(s, k) ==
    IF k <= Len(s) /\ IsDigit(At(s, k)) THEN SkipDigits(s, k + 1) ELSE k

HasAt(s, k, word) ==
    k + Len(word) - 1 <= Len(s) /\ SubSeq(s, k, k + Len(word) - 1) = word

\* A run of one digit or more at position k: the position after it, 0 when
\* there is no digit.
DigitsEnd(s, k) == IF SkipDigits(s, k) = k THEN 0 ELSE SkipDigits(s, k)

\* The parts of a number: sign, integer, fraction, exponent.  Each takes the
\* position the part before it ended at and gives the one it ends at, 0
\* when the number is malformed.
NumSign(s, k) == IF HasAt(s, k, "-") THEN k + 1 ELSE k

NumInt(s, k) == IF HasAt(s, k, "0") THEN k + 1 ELSE DigitsEnd(s, k)

NumFrac(s, k) ==
    IF k = 0 THEN 0 ELSE IF HasAt(s, k, ".") THEN DigitsEnd(s, k + 1) ELSE k

NumExp(s, k) ==
    IF k = 0 THEN 0
    ELSE IF ~(HasAt(s, k, "e") \/ HasAt(s, k, "E")) THEN k
    ELSE IF HasAt(s, k + 1, "+") \/ HasAt(s, k + 1, "-") THEN DigitsEnd(s, k + 2)
    ELSE DigitsEnd(s, k + 1)

\* A number at position k: the position after it, 0 when it is malformed.
NumberEnd(s, k) == NumExp(s, NumFrac(s, NumInt(s, NumSign(s, k))))

HexDigits == "0123456789abcdef"

Lower(c) ==
    IF c \in CharRange("A", "Z") THEN At(Ascii, Code(c) + 31) ELSE c

IsHex(c) == \E k \in 1..16 : At(HexDigits, k) = Lower(c)

HexValue(c) == (CHOOSE k \in 1..16 : At(HexDigits, k) = Lower(c)) - 1

\* The character of a \uXXXX escape whose digits begin at position k.
Unescaped(s, k) ==
    LET n == HexValue(At(s, k)) * 4096 + HexValue(At(s, k + 1)) * 256
             + HexValue(At(s, k + 2)) * 16 + HexValue(At(s, k + 3))
    IN  IF n = 10 THEN "\n" ELSE IF n = 9 THEN "\t" ELSE IF n = 13 THEN "\r"
        ELSE IF n >= 32 /\ n < 96 THEN At(Ascii, n - 31)
        ELSE At(Ascii, n - 32)

\* The body of a string from position k on, up to its closing quote.
RECURSIVE StringBody(_, _, _)
StringBody(s, k, text) ==
    IF k > Len(s) THEN Invalid
    ELSE LET c == At(s, k)
         IN  IF c = "\"" THEN Read(TRUE, k + 1, "string", text, <<>>)
             ELSE IF c \in {"\n", "\t", "\r"} THEN Invalid
             ELSE IF c # "\\" THEN StringBody(s, k + 1, text \o c)
             ELSE IF k = Len(s) THEN Invalid
             ELSE LET e == At(s, k + 1)
                  IN  IF e \in {"\"", "\\", "/"} THEN StringBody(s, k + 2, text \o e)
                      ELSE IF e = "n" THEN StringBody(s, k + 2, text \o "\n")
                      ELSE IF e = "t" THEN StringBody(s, k + 2, text \o "\t")
                      ELSE IF e = "r" THEN StringBody(s, k + 2, text \o "\r")
                      ELSE IF e = "u" /\ k + 5 <= Len(s)
                              /\ \A j \in (k + 2)..(k + 5) : IsHex(At(s, j))
                      THEN StringBody(s, k + 6, text \o Unescaped(s, k + 2))
                      ELSE Invalid

RECURSIVE Value(_, _)
RECURSIVE Elements(_, _)
RECURSIVE Members(_, _, _)

NumberUpTo(end) == IF end = 0 THEN Invalid ELSE Read(TRUE, end, "number", "", <<>>)

\* The inside of an object, and of an array, from position k on.
ObjectFrom(s, k) ==
    IF HasAt(s, k, "}") THEN Read(TRUE, k + 1, "object", "", <<>>)
    ELSE Members(s, k, <<>>)

ArrayFrom(s, k) ==
    IF HasAt(s, k, "]") THEN Read(TRUE, k + 1, "array", "", <<>>)
    ELSE Elements(s, k)

\* The value that begins at position k.
Value(s, k) ==
    IF k > Len(s) THEN Invalid
    ELSE IF At(s, k) = "\"" THEN StringBody(s, k + 1, "")
    ELSE IF At(s, k) = "{" THEN ObjectFrom(s, SkipSpace(s, k + 1))
    ELSE IF At(s, k) = "[" THEN ArrayFrom(s, SkipSpace(s, k + 1))
    ELSE IF HasAt(s, k, "null") THEN Read(TRUE, k + 4, "null", "", <<>>)
    ELSE IF HasAt(s, k, "true") THEN Read(TRUE, k + 4, "bool", "", <<>>)
    ELSE IF HasAt(s, k, "false") THEN Read(TRUE, k + 5, "bool", "", <<>>)
    ELSE NumberUpTo(NumberEnd(s, k))

\* An element has been read and the space behind it skipped: a comma and
\* the elements after it, or the closing bracket.
ElementsNext(s, k) ==
    IF HasAt(s, k, "]") THEN Read(TRUE, k + 1, "array", "", <<>>)
    ELSE IF HasAt(s, k, ",") THEN Elements(s, SkipSpace(s, k + 1))
    ELSE Invalid

ElementRead(s, v) == IF v.ok THEN ElementsNext(s, SkipSpace(s, v.next)) ELSE Invalid

\* The elements of an array from position k on, up to its closing bracket.
Elements(s, k) == ElementRead(s, Value(s, k))

\* A member has been read and the space behind it skipped: a comma and the
\* members after it, or the closing brace.
MembersNext(s, k, fields) ==
    IF HasAt(s, k, "}") THEN Read(TRUE, k + 1, "object", "", fields)
    ELSE IF HasAt(s, k, ",") THEN Members(s, SkipSpace(s, k + 1), fields)
    ELSE Invalid

MemberRead(s, name, v, fields) ==
    IF v.ok
    THEN MembersNext(s, SkipSpace(s, v.next),
                     Append(fields, [key |-> name, kind |-> v.kind, str |-> v.str]))
    ELSE Invalid

MemberColon(s, name, k, fields) ==
    IF HasAt(s, k, ":") THEN MemberRead(s, name, Value(s, SkipSpace(s, k + 1)), fields)
    ELSE Invalid

MemberKey(s, key, fields) ==
    IF key.ok THEN MemberColon(s, key.str, SkipSpace(s, key.next), fields) ELSE Invalid

\* The members of an object from position k on, up to its closing brace.
Members(s, k, fields) ==
    IF HasAt(s, k, "\"") THEN MemberKey(s, StringBody(s, k + 1, ""), fields)
    ELSE Invalid

RECURSIVE LowerAll(_)
LowerAll(s) == IF Len(s) = 0 THEN "" ELSE Lower(At(s, 1)) \o LowerAll(SubSeq(s, 2, Len(s)))

\* One member stored into r: it is matched to a field by its json tag,
\* letter case aside; a null leaves the field, a value that is not a string
\* is a type error and leaves the field.
StoreOne(name, f, st) ==
    IF name \notin {"type", "value"} \/ f.kind = "null" THEN st
    ELSE IF f.kind # "string" THEN [st EXCEPT !.failed = TRUE]
    ELSE IF name = "type" THEN [st EXCEPT !.rule.Type = f.str]
    ELSE [st EXCEPT !.rule.Value = f.str]

\* The members of an object stored into the rule of st, in order.
RECURSIVE Store(_, _)
Store(fields, st) ==
    IF Len(fields) = 0 THEN st
    ELSE Store(Tail(fields), StoreOne(LowerAll(Head(fields).key), Head(fields), st))

Stored(st) ==
    [err |-> IF st.failed THEN <<"*json.UnmarshalTypeError">> ELSE <<>>, rule |-> st.rule]

\* The value v read from all of data (ok and nothing behind it) stored into
\* the zero Rule.
Decoded(data, v, end) ==
    IF ~v.ok \/ end <= Len(data)
    THEN [err |-> <<"*json.SyntaxError">>, rule |-> ZeroRule]
    ELSE IF v.kind = "null" THEN [err |-> <<>>, rule |-> ZeroRule]
    ELSE IF v.kind # "object"
    THEN [err |-> <<"*json.UnmarshalTypeError">>, rule |-> ZeroRule]
    ELSE Stored(Store(v.fields, [rule |-> ZeroRule, failed |-> FALSE]))

AllRead(data, v) == Decoded(data, v, IF v.ok THEN SkipSpace(data, v.next) ELSE 0)

\* json.Unmarshal([]byte(data), &r) with r the zero Rule: the error (none,
\* a *json.SyntaxError or a *json.UnmarshalTypeError) and r afterwards.
Unmarshal(data) == AllRead(data, Value(data, SkipSpace(data, 1)))

-----------------------------------------------------------------------------
\* Package trigger: ParseShorthand, Evaluate, Describe

\* A Go error: <<>> for nil, else the text fmt.Errorf formats ahead of a %w
\* verb (the whole text when there is none) and the error the verb wraps.
Errorf(text, cause) == <<[text |-> text, cause |-> cause]>>

SyntaxCause(e) == <<"*syntax.Error", e.Code, e.Expr>>

\* strings.Index(input, c): the position of the first c, counted from 1; 0
\* when there is none.
Index(s, c) ==
    IF \E k \in 1..Len(s) : At(s, k) = c
    THEN CHOOSE k \in 1..Len(s) : At(s, k) = c /\ \A j \in 1..(k - 1) : At(s, j) # c
    ELSE 0

KnownTypes == {"contains", "not_contains", "regex", "not_regex"}

Failed(err) == [rule |-> "", err |-> err]

\* lines 38-46 of ParseShorthand: the pattern of a regex kind has
\* been compiled with the error reErr; the rule is serialized.
Serialized(typ, val, reErr) ==
    IF typ \in {"regex", "not_regex"} /\ reErr # NoRegexpError
    THEN Failed(Errorf("invalid regex " \o Quote(val) \o ": ", SyntaxCause(reErr)))
    ELSE [rule |-> Marshal(Rule(typ, val)), err |-> <<>>]

\* Faulty variant: the value is validated ahead of the type.
ValidatedValueFirst(typ, val) ==
    IF val = "" THEN Failed(Errorf("trigger value cannot be empty", <<>>))
    ELSE IF typ \notin KnownTypes
    THEN Failed(Errorf("unknown trigger type " \o Quote(typ)
                       \o " (valid: contains, not_contains, regex, not_regex)", <<>>))
    ELSE Serialized(typ, val, Compile(val).err)

\* lines 27-46 of ParseShorthand: the type, the value, the pattern
Validated(typ, val) ==
    IF typ \notin KnownTypes
    THEN Failed(Errorf("unknown trigger type " \o Quote(typ)
                       \o " (valid: contains, not_contains, regex, not_regex)", <<>>))
    ELSE IF val = "" THEN Failed(Errorf("trigger value cannot be empty", <<>>))
    ELSE Serialized(typ, val, Compile(val).err)

\* lines 19-25 of ParseShorthand: the input split at idx, the first ':'
SplitAt(input, idx) ==
    IF idx = 0
    THEN Failed(Errorf("invalid trigger rule: expected 'type:value' (e.g. 'contains:some text')",
                       <<>>))
    ELSE Validated(SubSeq(input, 1, idx - 1), SubSeq(input, idx + 1, Len(input)))

\* ParseShorthand(input): lines 18-47
ParseShorthand(input) == SplitAt(input, Index(input, ":"))

Fired(fires, err) == [fires |-> fires, err |-> err]

\* Faulty variant: a pattern that does not compile keeps the rule from firing.
MatchedFailClosed(typ, re, content) ==
    IF re.err # NoRegexpError
    THEN Fired(FALSE, Errorf("invalid regex: ", SyntaxCause(re.err)))
    ELSE Fired(MatchString(re.pieces, content) = (typ = "regex"), <<>>)

\* lines 66-77 of Evaluate: the pattern compiled as re, and matched
Matched(typ, re, content) ==
    IF re.err # NoRegexpError
    THEN Fired(TRUE, Errorf("invalid regex: ", SyntaxCause(re.err)))
    ELSE Fired(MatchString(re.pieces, content) = (typ = "regex"), <<>>)

\* Faulty variant: contains and not_contains compare without regard to
\* letter case.
AppliedFold(r, content) ==
    IF r.Type = "contains"
    THEN Fired(Contains(LowerAll(content), LowerAll(r.Value)), <<>>)
    ELSE IF r.Type = "not_contains"
    THEN Fired(~Contains(LowerAll(content), LowerAll(r.Value)), <<>>)
    ELSE IF r.Type \in {"regex", "not_regex"}
    THEN Matched(r.Type, Compile(r.Value), content)
    ELSE Fired(TRUE, Errorf("unknown trigger type: " \o r.Type, <<>>))

\* switch r.Type, lines 61-80 of Evaluate
Applied(r, content) ==
    IF r.Type = "contains" THEN Fired(Contains(content, r.Value), <<>>)
    ELSE IF r.Type = "not_contains" THEN Fired(~Contains(content, r.Value), <<>>)
    ELSE IF r.Type \in {"regex", "not_regex"}
    THEN Matched(r.Type, Compile(r.Value), content)
    ELSE Fired(TRUE, Errorf("unknown trigger type: " \o r.Type, <<>>))

\* lines 56-80 of Evaluate: the rule deserialized as u
Deserialized(u, content) ==
    IF u.err # <<>> THEN Fired(TRUE, Errorf("invalid trigger rule JSON: ", u.err))
    ELSE Applied(u.rule, content)

\* Evaluate(ruleJSON, content): lines 51-81
Evaluate(ruleJSON, content) ==
    IF ruleJSON = "" THEN Fired(TRUE, <<>>)
    ELSE Deserialized(Unmarshal(ruleJSON), content)

\* Faulty variant: the sentence names the kind of rule and leaves the value
\* out.
SentenceKindOnly(ruleJSON, u) ==
    IF u.err # <<>> THEN ruleJSON
    ELSE IF u.rule.Type = "contains" THEN "trigger if contains"
    ELSE IF u.rule.Type = "not_contains" THEN "trigger if missing"
    ELSE IF u.rule.Type = "regex" THEN "trigger if matches"
    ELSE IF u.rule.Type = "not_regex" THEN "trigger if not matches"
    ELSE ruleJSON

\* lines 89-103 of Describe: the rule deserialized as u
Sentence(ruleJSON, u) ==
    IF u.err # <<>> THEN ruleJSON
    ELSE IF u.rule.Type = "contains" THEN "trigger if contains " \o Quote(u.rule.Value)
    ELSE IF u.rule.Type = "not_contains" THEN "trigger if missing " \o Quote(u.rule.Value)
    ELSE IF u.rule.Type = "regex" THEN "trigger if matches /" \o u.rule.Value \o "/"
    ELSE IF u.rule.Type = "not_regex"
    THEN "trigger if not matches /" \o u.rule.Value \o "/"
    ELSE ruleJSON

\* Describe(ruleJSON): lines 84-104
Describe(ruleJSON) == IF ruleJSON = "" THEN "" ELSE Sentence(ruleJSON, Unmarshal(ruleJSON))

-----------------------------------------------------------------------------
\* The trigger engine as its callers drive it: a shorthand is parsed, or a
\* rule is read back from a target record; the rule in hand is evaluated
\* against contents and described.

RuleTypes == KnownTypes \cup {"", "equals", "Contains"}

RuleValues ==
    { "", "out of stock", "a:b", "say \"hi\"", "a\\.c", "<b>&", "^[0-9]+$",
      "[", "a**", "\\q" }

\* The inputs of ParseShorthand: with a separator, and without one.
Shorthands ==
    { t \o ":" \o v : t \in RuleTypes, v \in RuleValues }
        \cup {"", "contains", "out of stock"}

\* Rule texts a target record can hold that ParseShorthand did not write.
ForeignRules ==
    { "", "not json", "null", "{}", "[]",
      "{\"type\":\"equals\",\"value\":\"x\"}",
      "{\"type\":\"regex\",\"value\":\"[\"}",
      "{\"type\":\"not_regex\",\"value\":\"a**\"}",
      "{\"type\":1,\"value\":\"x\"}",
      "{\"type\":\"not_contains\"}",
      "{ \"Type\": \"contains\", \"Value\": \"42\" }",
      "{\"type\":\"contains\",\"value\":\"in st" }

Contents ==
    { "", "Item: out of stock", "Item: in stock", "item: Out Of Stock", "42",
      "a.c a:b <b>& say \"hi\"" }

\* No call made yet.
NoCall ==
    [op |-> "idle", input |-> "", rule |-> "", err |-> <<>>,
     evaluated |-> FALSE, content |-> "", fires |-> TRUE, everr |-> <<>>,
     described |-> FALSE, text |-> ""]

\* No Check call in progress or possible.
CheckOff ==
    /\ target = [p \in Ctx |-> CHOOSE t \in Targets(1) : t.URL = SteadyURL]
    /\ store = [id \in IDs |-> <<>>]
    /\ pc = [p \in Ctx |-> "off"]
    /\ IdleLocals

InitTrigger ==
    /\ CheckOff
    /\ trig = NoCall
    /\ stored = [op |-> "off"]
    /\ cmd = [op |-> "off"]

\* What the callers hold after a call.
Parsed(input, out) ==
    [NoCall EXCEPT !.op = "ParseShorthand", !.input = input, !.rule = out.rule,
                   !.err = out.err]

Evaluated(held, content, out) ==
    [held EXCEPT !.op = "Evaluate", !.evaluated = TRUE, !.content = content,
                 !.fires = out.fires, !.everr = out.err]

\* rule, err := trigger.ParseShorthand(input)
ParseCall ==
    /\ trig.op = "idle"
    /\ \E input \in Shorthands : trig' = Parsed(input, ParseShorthand(input))
    /\ UNCHANGED <<checkVars, stored, cmd>>

\* The rule of a target record is read back.
LoadRule ==
    /\ trig.op = "idle"
    /\ \E r \in ForeignRules : trig' = [NoCall EXCEPT !.op = "load", !.rule = r]
    /\ UNCHANGED <<checkVars, stored, cmd>>

\* fires, err := trigger.Evaluate(rule, content)
EvaluateCall ==
    /\ trig.op # "idle"
    /\ trig.err = <<>>
    /\ \E content \in Contents :
         trig' = Evaluated(trig, content, Evaluate(trig.rule, content))
    /\ UNCHANGED <<checkVars, stored, cmd>>

\* trigger.Describe(rule)
DescribeCall ==
    /\ trig.op # "idle"
    /\ trig.err = <<>>
    /\ ~trig.described
    /\ trig' = [trig EXCEPT !.op = "Describe", !.described = TRUE,
                             !.text = Describe(trig.rule)]
    /\ UNCHANGED <<checkVars, stored, cmd>>

\* The callers are done with the rule in hand.
Forget ==
    /\ trig.op # "idle"
    /\ trig' = NoCall
    /\ UNCHANGED <<checkVars, stored, cmd>>

NextTrigger == ParseCall \/ LoadRule \/ EvaluateCall \/ DescribeCall \/ Forget

SpecTrigger == InitTrigger /\ [][NextTrigger]_vars

-----------------------------------------------------------------------------
\* The edit command: runEdit

\* The target a run of the add command stores: the record of db.AddTarget
\* from the defaults of the flags of add, with no trigger rule and no jq
\* filter.
AddedTarget(expect) ==
    [ID |-> 1, Name |-> "My Site", URL |-> "https://example.com", Type |-> "http",
     Interval |-> 300, Selector |-> "", Headers |-> "", Expect |-> expect,
     Timeout |-> 30, Retries |-> 1, TriggerRule |-> "", JQFilter |-> ""]

\* The flags of the edit command that carry a value, with the field of the
\* target each one sets, in the order runEdit reads them; and the flags that
\* clear a field.
ValueFlags ==
    << <<"name", "Name">>, <<"url", "URL">>, <<"type", "Type">>,
       <<"interval", "Interval">>, <<"selector", "Selector">>,
       <<"headers", "Headers">>, <<"expect", "Expect">>, <<"timeout", "Timeout">>,
       <<"retries", "Retries">>, <<"trigger-if", "TriggerRule">>,
       <<"jq", "JQFilter">> >>

ClearFlags ==
    << <<"clear-trigger", "TriggerRule">>, <<"clear-jq", "JQFilter">>,
       <<"clear-selector", "Selector">>, <<"clear-headers", "Headers">>,
       <<"clear-expect", "Expect">> >>

FlagNames ==
    { ValueFlags[k][1] : k \in 1..Len(ValueFlags) }
        \cup { ClearFlags[k][1] : k \in 1..Len(ClearFlags) }

\* A command line: for every flag <<>> when it is not given, else <<v>>
\* with the value given.
CommandLines ==
    { [n \in FlagNames |->
          CASE n = "name" -> name
            [] n = "expect" -> expect
            [] n = "retries" -> tries
            [] n = "trigger-if" -> rule
            [] n = "clear-trigger" -> noRule
            [] n = "clear-expect" -> noExpect
            [] OTHER -> <<>>] :
        name \in {<<>>, <<"New Name">>},
        expect \in {<<>>, <<"Welcome">>, <<"">>},
        tries \in {<<>>, <<3>>},
        rule \in {<<>>, <<"contains:error">>, <<"equals:x">>, <<"regex:[">>},
        noRule \in {<<>>, <<TRUE>>},
        noExpect \in {<<>>, <<TRUE>>, <<FALSE>>} }

\* args[0]
Keys == {"1", "My Site", "nope"}

\* cmd.Flags().Changed(name)
Changed(flags, name) == flags[name] # <<>>

\* v, _ := cmd.Flags().GetBool(name)
GetBool(flags, name) == flags[name] = <<TRUE>>

\* Faulty variant: the field is assigned the value of the flag whether or
\* not the flag was given.
AssignedAlways(t, flags, name, field) ==
    [t EXCEPT ![field] = IF Changed(flags, name) THEN flags[name][1]
                         ELSE IF field \in {"Interval", "Timeout", "Retries"} THEN 0
                         ELSE ""]

\* if cmd.Flags().Changed(name) { target.<field>, _ = cmd.Flags().Get...(name) }
Assigned(t, flags, name, field) ==
    IF Changed(flags, name) THEN [t EXCEPT ![field] = flags[name][1]] ELSE t

\* if v, _ := cmd.Flags().GetBool(name); v { target.<field> = "" }
Cleared(t, flags, name, field) ==
    IF GetBool(flags, name) THEN [t EXCEPT ![field] = ""] ELSE t

\* lines 60-95: the nine flags ahead of trigger-if
RECURSIVE AssignedUpTo(_, _, _)
AssignedUpTo(t, flags, k) ==
    IF k = 0 THEN t
    ELSE Assigned(AssignedUpTo(t, flags, k - 1), flags, ValueFlags[k][1], ValueFlags[k][2])

\* lines 109-128: the five clear flags
RECURSIVE ClearedUpTo(_, _, _)
ClearedUpTo(t, flags, k) ==
    IF k = 0 THEN t
    ELSE Cleared(ClearedUpTo(t, flags, k - 1), flags, ClearFlags[k][1], ClearFlags[k][2])

\* changed, line 130: a flag with a value was given or a clear flag is true
AnyChange(flags) ==
    \/ \E k \in 1..Len(ValueFlags) : Changed(flags, ValueFlags[k][1])
    \/ \E k \in 1..Len(ClearFlags) : GetBool(flags, ClearFlags[k][1])

\* The run of a command so far: the error exitError was called with (<<>>
\* while it runs on), and the target in hand.
Running(t) == [exit |-> <<>>, target |-> t]
Exited(err, t) == [exit |-> err, target |-> t]

\* Faulty variant: the error of ParseShorthand does not end the command.
RuleAssignedAnyway(t, flags, out) ==
    IF Changed(flags, "trigger-if") THEN Running([t EXCEPT !.TriggerRule = out.rule])
    ELSE Running(t)

\* lines 96-104: trigger-if, out being what ParseShorthand returns for it
RuleAssigned(t, flags, out) ==
    IF Changed(flags, "trigger-if") /\ out.err # <<>> THEN Exited(out.err, t)
    ELSE IF Changed(flags, "trigger-if") THEN Running([t EXCEPT !.TriggerRule = out.rule])
    ELSE Running(t)

\* lines 105-132: jq, the clear flags, and the test of changed (the text of
\* the error is given up to its dash)
Finished(run, flags) ==
    IF run.exit # <<>> THEN run
    ELSE IF ~AnyChange(flags) THEN Exited(Errorf("nothing to update", <<>>), run.target)
    ELSE Running(ClearedUpTo(Assigned(run.target, flags, "jq", "JQFilter"), flags,
                             Len(ClearFlags)))

\* lines 58-132 of runEdit: the target read from the store, edited
Edited(t, flags) ==
    Finished(RuleAssigned(AssignedUpTo(t, flags, 9), flags,
                          ParseShorthand(IF Changed(flags, "trigger-if")
                                         THEN flags["trigger-if"][1] ELSE "")),
             flags)

\* db.GetTarget(key): the target whose id, name or URL is key
GetTarget(record, key) ==
    IF key \in {FormatInt(record.ID), record.Name, record.URL}
    THEN [err |-> <<>>, target |-> record]
    ELSE [err |-> Errorf("target not found", <<>>), target |-> record]

\* No command running.
NoCommand ==
    [op |-> "idle", key |-> "", flags |-> [n \in FlagNames |-> <<>>], before |-> <<>>,
     exit |-> <<>>, updates |-> 0]

\* The command has run: what it was given, the record the store held, the
\* error it exited with, the calls of db.UpdateTarget it made.
Ran(key, flags, before, exit, updates) ==
    [op |-> "edit", key |-> key, flags |-> flags, before |-> <<before>>, exit |-> exit,
     updates |-> updates]

\* lines 134-136: db.UpdateTarget(target), failing with dbErr or storing
Updated(key, flags, run, dbErr) ==
    IF run.exit # <<>> THEN [cmd |-> Ran(key, flags, stored, run.exit, 0), stored |-> stored]
    ELSE IF dbErr # <<>> THEN [cmd |-> Ran(key, flags, stored, dbErr, 1), stored |-> stored]
    ELSE [cmd |-> Ran(key, flags, stored, <<>>, 1), stored |-> run.target]

\* lines 53-56: db.GetTarget(args[0])
Fetched(key, flags, got, dbErr) ==
    IF got.err # <<>> THEN [cmd |-> Ran(key, flags, stored, got.err, 0), stored |-> stored]
    ELSE Updated(key, flags, Edited(got.target, flags), dbErr)

InitEdit ==
    /\ CheckOff
    /\ trig = [op |-> "off"]
    /\ \E expect \in {"", "ok"} : stored = AddedTarget(expect)
    /\ cmd = NoCommand

\* runEdit(cmd, args), lines 52-136
RunEdit ==
    /\ cmd.op = "idle"
    /\ \E key \in Keys, flags \in CommandLines,
          dbErr \in {<<>>, Errorf("database is locked", <<>>)} :
         /\ cmd' = Fetched(key, flags, GetTarget(stored, key), dbErr).cmd
         /\ stored' = Fetched(key, flags, GetTarget(stored, key), dbErr).stored
    /\ UNCHANGED <<checkVars, trig>>

\* The process of the command ends.
EndEdit ==
    /\ cmd.op = "edit"
    /\ cmd' = NoCommand
    /\ UNCHANGED <<checkVars, trig, stored>>

NextEdit == RunEdit \/ EndEdit

SpecEdit == InitEdit /\ [][NextEdit]_vars

-----------------------------------------------------------------------------
\* Properties of Check

Successes == {"up", "unchanged", "changed"}
Statuses  == {"up", "down", "changed", "unchanged", "error"}

HTTPFamily(t) == t.Type \notin {"tcp", "ping", "dns"}

\* The effective attempt count E of a target.
E(t) == IF t.Retries > 0 THEN t.Retries ELSE 1

Returned(p) == pc[p] = "done" /\ ret[p] # <<>>

\* The latest attempt of p received a response.
GotResponse(p) ==
    /\ last[p] # <<>>
    /\ HTTPFamily(target[p])
    /\ NewRequest(target[p].URL) = <<>>
    /\ last[p][1].net.err = <<>>

\* The latest attempt of p read the body of the response.
BodyRead(p) == GotResponse(p) /\ last[p][1].net.readErr = <<>>

InRange(c) == 200 <= c /\ c < 400

\* The latest attempt of p asked the store.
Consulted(p) == attempts[p] # <<>> /\ attempts[p][Len(attempts[p])].consulted

\* C1: Check makes k attempts when the k-th is the first successful one among
\* the first E, and E attempts otherwise: never more than E, none after a
\* success, and another one after every failure while attempts remain.
C1_AttemptCount ==
    \A p \in Ctx :
        LET n == Len(attempts[p])
        IN  /\ n <= E(target[p])
            /\ \A k \in 1..(n - 1) : attempts[p][k].Status \notin Successes
            /\ pc[p] = "done" =>
                 /\ n >= 1
                 /\ n < E(target[p]) => attempts[p][n].Status \in Successes

C1_Witness ==
    \E p \in Ctx :
        /\ pc[p] = "done"
        /\ target[p].Retries = 2
        /\ Len(attempts[p]) = 2
        /\ attempts[p][1].Status = "error"
        /\ attempts[p][2].Status = "changed"

\* C2: the Result Check returns is the Result of the last attempt it made.
C2_ReturnsLastAttempt ==
    \A p \in Ctx :
        pc[p] = "done" => /\ last[p] # <<>>
                          /\ ret[p] = <<last[p][1].res>>

C2_Witness ==
    \E p \in Ctx :
        /\ Returned(p)
        /\ Len(attempts[p]) = 2
        /\ attempts[p][1].Status = "error"
        /\ ret[p][1].Status = "down"
        /\ ret[p][1].Error = "HTTP 400"

\* C3: the Status of every Result, returned or of an attempt, is one of up,
\* down, changed, unchanged, error.
C3_StatusSet ==
    \A p \in Ctx :
        /\ ret[p] # <<>> => ret[p][1].Status \in Statuses
        /\ \A k \in 1..Len(attempts[p]) : attempts[p][k].Status \in Statuses

C3_Witness ==
    \E p \in Ctx :
        /\ Returned(p)
        /\ target[p].Type = "ftp"
        /\ ret[p][1].Status = "unchanged"

\* C4: a returned Result has Status down or error exactly when its Error is
\* non-empty, and a successful Status comes with an empty Error.
C4_ErrorIffFailure ==
    \A p \in Ctx :
        ret[p] # <<>> =>
            /\ ret[p][1].Status \in {"down", "error"} <=> ret[p][1].Error # ""
            /\ ret[p][1].Status \in Successes => ret[p][1].Error = ""

C4_Witness ==
    \E p \in Ctx :
        /\ Returned(p)
        /\ target[p].Type = "ping"
        /\ ret[p][1].Status = "down"
        /\ ret[p][1].Error = "ping failed"

\* C5: with the body read and the status code in [200, 400), a configured
\* Expect that the content lacks gives down with the keyword error, without
\* the store being asked, whatever it holds; the store is asked, and a
\* successful Status given, only with the code in range and no keyword failure.
C5_KeywordBeforeSnapshot ==
    \A p \in Ctx :
        last[p] # <<>> =>
            LET a == last[p][1]
                t == target[p]
                mismatch == t.Expect # "" /\ ~Contains(a.res.Content, t.Expect)
            IN  /\ (BodyRead(p) /\ InRange(a.net.code) /\ mismatch) =>
                     /\ a.res.Status = "down"
                     /\ a.res.Error =
                          "expected keyword " \o Quote(t.Expect) \o " not found"
                     /\ ~Consulted(p)
                /\ (HTTPFamily(t) /\ (Consulted(p) \/ a.res.Status \in Successes)) =>
                     /\ BodyRead(p)
                     /\ InRange(a.net.code)
                     /\ ~mismatch

C5_Witness ==
    \E p \in Ctx :
        /\ Returned(p)
        /\ BodyRead(p)
        /\ InRange(last[p][1].net.code)
        /\ target[p].Expect = "ok"
        /\ store[target[p].ID] # <<>>
        /\ store[target[p].ID][1].Hash = ret[p][1].ContentHash
        /\ ret[p][1].Error = "expected keyword \"ok\" not found"

\* C6 as stated: every attempt that received a response with a status code
\* outside [200, 400) is down with Error "HTTP <code>".
C6_Original ==
    \A p \in Ctx :
        (GotResponse(p) /\ ~InRange(last[p][1].net.code)) =>
            /\ last[p][1].res.Status = "down"
            /\ last[p][1].res.Error = "HTTP " \o FormatInt(last[p][1].net.code)

\* C6: every attempt that received a response with a status code outside
\* [200, 400) and read its body is down with Error "HTTP <code>", whatever
\* the body, the keyword and the snapshots; with the body unread it is error.
C6_OutOfRangeIsDown ==
    \A p \in Ctx :
        (GotResponse(p) /\ ~InRange(last[p][1].net.code)) =>
            IF last[p][1].net.readErr = <<>>
            THEN /\ last[p][1].res.Status = "down"
                 /\ last[p][1].res.Error = "HTTP " \o FormatInt(last[p][1].net.code)
                 /\ last[p][1].res.StatusCode = last[p][1].net.code
            ELSE last[p][1].res.Status = "error"

C6_Witness ==
    \E p \in Ctx :
        /\ Returned(p)
        /\ BodyRead(p)
        /\ last[p][1].net.code = 400
        /\ ret[p][1].BodyMatch = <<TRUE>>
        /\ store[target[p].ID] # <<>>
        /\ ret[p][1].Error = "HTTP 400"

\* C7: with the code in range and no keyword failure the store is asked for
\* the latest snapshot: an error or no snapshot gives up with no Error, a
\* snapshot of another hash gives changed, of the same hash unchanged; only
\* the most recent snapshot counts.
C7_SnapshotDecides ==
    \A p \in Ctx :
        (/\ pc[p] \in {"loop", "sleep", "done"}
         /\ BodyRead(p)
         /\ InRange(last[p][1].net.code)
         /\ last[p][1].res.BodyMatch # <<FALSE>>) =>
            LET a == last[p][1]
                snaps == store[target[p].ID]
            IN  /\ Consulted(p)
                /\ a.res.Error = ""
                /\ a.res.Status =
                     IF a.net.storeErr # <<>> \/ snaps = <<>> THEN "up"
                     ELSE IF snaps[1].Hash # a.res.ContentHash THEN "changed"
                     ELSE "unchanged"

C7_Witness ==
    \E p \in Ctx :
        /\ Returned(p)
        /\ BodyRead(p)
        /\ last[p][1].net.storeErr # <<>>
        /\ Len(store[target[p].ID]) = 2
        /\ store[target[p].ID][2].Hash = ret[p][1].ContentHash
        /\ ret[p][1].Status = "up"

\* A call on the steady HTTP target: no Expect, one attempt, answered 200,
\* the body read and the store answering.
SteadyCall(p) ==
    /\ Returned(p)
    /\ target[p].Type = "http"
    /\ target[p].Expect = ""
    /\ Len(attempts[p]) = 1
    /\ BodyRead(p)
    /\ last[p][1].net.code = 200
    /\ last[p][1].net.storeErr = <<>>

\* C8 as stated: the first check, with no snapshot, is up; a check whose
\* body is identical to the one saved last is unchanged; a check whose body
\* differs from it is changed.
C8_Original ==
    \A p \in Ctx :
        SteadyCall(p) =>
            /\ store[target[p].ID] = <<>> => ret[p][1].Status = "up"
            /\ prev[p] # <<>> =>
                 ret[p][1].Status =
                     IF last[p][1].net.body = prev[p][1] THEN "unchanged" ELSE "changed"

\* C8: the first check, with no snapshot, is up; after the caller saved an
\* observation, a check whose content (the body, or what the selector leaves
\* of it) equals the saved one is unchanged, so one with an identical body
\* is; a check whose content differs is changed.
C8_UpUnchangedChanged ==
    \A p \in Ctx :
        SteadyCall(p) =>
            /\ store[target[p].ID] = <<>> => ret[p][1].Status = "up"
            /\ prev[p] # <<>> =>
                 /\ last[p][1].net.body = prev[p][1] => ret[p][1].Status = "unchanged"
                 /\ ret[p][1].Status =
                      IF ret[p][1].Content = ExtractContent(target[p], prev[p][1])
                      THEN "unchanged" ELSE "changed"

C8_Witness ==
    \E p \in Ctx :
        /\ SteadyCall(p)
        /\ calls[p] = 3
        /\ prev[p] # <<>>
        /\ last[p][1].net.body # prev[p][1]
        /\ Len(store[target[p].ID]) = 2
        /\ store[target[p].ID][1] = store[target[p].ID][2]
        /\ ret[p][1].Status = "changed"

\* C9: BodyMatch of a returned Result is set exactly when the target has an
\* Expect and the attempt read the body, and then tells whether the content
\* contains Expect.
C9_BodyMatch ==
    \A p \in Ctx :
        Returned(p) =>
            /\ ret[p][1].BodyMatch # <<>> <=> (target[p].Expect # "" /\ BodyRead(p))
            /\ ret[p][1].BodyMatch # <<>> =>
                 ret[p][1].BodyMatch[1] = Contains(ret[p][1].Content, target[p].Expect)

C9_Witness ==
    \E p \in Ctx :
        /\ Returned(p)
        /\ target[p].Expect = "ok"
        /\ GotResponse(p)
        /\ last[p][1].net.readErr # <<>>
        /\ ret[p][1].BodyMatch = <<>>

\* C10: a tcp, ping or dns check returns StatusCode 0, no ContentHash, no
\* Content, no SSLExpiry and no BodyMatch and never asks the store; an
\* HTTP-family check has ContentHash and Content only with the body read.
C10_NonHTTPFrame ==
    \A p \in Ctx :
        Returned(p) =>
            LET r == ret[p][1]
            IN  IF HTTPFamily(target[p])
                THEN (r.ContentHash # "" \/ r.Content # "") => BodyRead(p)
                ELSE /\ r.StatusCode = 0
                     /\ r.ContentHash = ""
                     /\ r.Content = ""
                     /\ r.SSLExpiry = <<>>
                     /\ r.BodyMatch = <<>>
                     /\ r.ResponseTime = Elapsed
                     /\ \A k \in 1..Len(attempts[p]) : ~attempts[p][k].consulted

C10_Witness ==
    \E p \in Ctx :
        /\ Returned(p)
        /\ target[p].Type = "tcp"
        /\ target[p].Selector = "b"
        /\ target[p].Expect = "ok"
        /\ ret[p][1].Status = "up"
        /\ ret[p][1].ContentHash = ""

\* The body the latest attempt of p read, and what the selector of the target
\* matched in it.
BodyOf(p) == last[p][1].net.body
MatchesOf(p) == Selected(BodyOf(p), target[p].Selector)

\* C18 as stated: when the selector matches nothing the content, the hash and
\* the keyword match are those of the raw body, the joined matches replace the
\* content only when there is a match, and with a Selector configured the
\* content is never the empty string.
C18_Original ==
    \A p \in Ctx :
        (Returned(p) /\ BodyRead(p) /\ target[p].Selector # "") =>
            /\ Len(MatchesOf(p)) = 0 =>
                 /\ ret[p][1].Content = Raw(BodyOf(p))
                 /\ ret[p][1].ContentHash = Sha256Hex(Raw(BodyOf(p)))
                 /\ target[p].Expect # "" =>
                      ret[p][1].BodyMatch = <<Contains(Raw(BodyOf(p)), target[p].Expect)>>
            /\ Len(MatchesOf(p)) > 0 => ret[p][1].Content = Join(MatchesOf(p), "\n")
            /\ ret[p][1].Content # ""

\* C18, amended: when the selector matches nothing the content, the hash and
\* the keyword match are those of the raw body; with a match the content is
\* the newline-joined trimmed matches; the content is the empty string
\* exactly when the selector matches nothing in an empty body or every match
\* has an empty trimmed text, and the hash is then the digest of the empty
\* string.
C18_SelectorFallback ==
    \A p \in Ctx :
        (Returned(p) /\ BodyRead(p) /\ target[p].Selector # "") =>
            /\ Len(MatchesOf(p)) = 0 =>
                 /\ ret[p][1].Content = Raw(BodyOf(p))
                 /\ ret[p][1].ContentHash = Sha256Hex(Raw(BodyOf(p)))
                 /\ target[p].Expect # "" =>
                      ret[p][1].BodyMatch = <<Contains(Raw(BodyOf(p)), target[p].Expect)>>
            /\ Len(MatchesOf(p)) > 0 =>
                 /\ ret[p][1].Content = Join(MatchesOf(p), "\n")
                 /\ ret[p][1].ContentHash = Sha256Hex(Join(MatchesOf(p), "\n"))
            /\ ret[p][1].Content = "" <=>
                 \/ Len(MatchesOf(p)) = 0 /\ BodyOf(p) = <<>>
                 \/ Len(MatchesOf(p)) = 1 /\ MatchesOf(p)[1] = ""
            /\ ret[p][1].Content = "" => ret[p][1].ContentHash = Sha256Hex("")

\* A selector that matches nothing in a body that has bytes.
C18_Witness ==
    \E p \in Ctx :
        /\ Returned(p)
        /\ BodyRead(p)
        /\ target[p].Selector # ""
        /\ Len(MatchesOf(p)) = 0
        /\ BodyOf(p) # <<>>
        /\ target[p].Expect # ""
        /\ ret[p][1].Content = Raw(BodyOf(p))

\* C20: the attempts of one call are sequential and separated by the pause:
\* an attempt starts only with every earlier attempt returned without success
\* and one 2-second pause taken after each of them; a pause follows only a
\* failed attempt that is not the last; at return the pauses number one less
\* than the attempts, none being taken after a success or after the last
\* attempt.
C20_PausesBetweenAttempts ==
    \A p \in Ctx :
        LET n == Len(attempts[p])
        IN  /\ \A k \in 1..Len(pauses[p]) : pauses[p][k] = 2
            /\ (pc[p] = "loop" /\ i[p] < retries[p]) =>
                 /\ n = i[p]
                 /\ Len(pauses[p]) = n
                 /\ \A k \in 1..n : attempts[p][k].Status \notin Successes
            /\ pc[p] = "sleep" =>
                 /\ n = i[p] + 1
                 /\ n < retries[p]
                 /\ Len(pauses[p]) = n - 1
                 /\ attempts[p][n].Status \notin Successes
            /\ pc[p] = "done" =>
                 /\ n >= 1
                 /\ Len(pauses[p]) = n - 1

\* A call that used up two attempts and returns after one pause.
C20_Witness ==
    \E p \in Ctx :
        /\ pc[p] = "done"
        /\ Len(attempts[p]) = 2
        /\ pauses[p] = <<2>>
        /\ ret[p][1].Status \notin Successes

-----------------------------------------------------------------------------
\* Properties of the trigger engine

\* The type and the value of a shorthand: what is before, and what is after,
\* its first ':'.
ShortType(input) == SubSeq(input, 1, Index(input, ":") - 1)
ShortValue(input) == SubSeq(input, Index(input, ":") + 1, Len(input))

Compilable(pattern) == Compile(pattern).err = NoRegexpError

\* The four errors of ParseShorthand, told apart by their text.
ErrorKind(err) ==
    IF err = <<>> THEN "none"
    ELSE IF HasAt(err[1].text, 1, "invalid trigger rule: expected 'type:value'")
    THEN "InvalidFormat"
    ELSE IF HasAt(err[1].text, 1, "unknown trigger type ") THEN "UnknownType"
    ELSE IF err[1].text = "trigger value cannot be empty" THEN "EmptyValue"
    ELSE IF HasAt(err[1].text, 1, "invalid regex ") THEN "InvalidPattern"
    ELSE "other"

\* The first of the four conditions that applies to a shorthand.
FirstFailure(input) ==
    IF ~Contains(input, ":") THEN "InvalidFormat"
    ELSE IF ShortType(input) \notin {"contains", "not_contains", "regex", "not_regex"}
    THEN "UnknownType"
    ELSE IF ShortValue(input) = "" THEN "EmptyValue"
    ELSE IF ShortType(input) \in {"regex", "not_regex"} /\ ~Compilable(ShortValue(input))
    THEN "InvalidPattern"
    ELSE "none"

\* C11: ParseShorthand splits at the first ':' and returns the first error
\* that applies, in the order no separator, unknown type, empty value,
\* pattern that does not compile, with an empty rule; with none of them it
\* returns the serialized type and value.
C11_ValidationOrder ==
    trig.op = "ParseShorthand" =>
        /\ ErrorKind(trig.err) = FirstFailure(trig.input)
        /\ trig.err # <<>> => trig.rule = ""
        /\ trig.err = <<>> =>
             Unmarshal(trig.rule) =
                 [err |-> <<>>, rule |-> Rule(ShortType(trig.input), ShortValue(trig.input))]

\* An unknown type with an empty value.
C11_Witness ==
    /\ trig.op = "ParseShorthand"
    /\ trig.input = "equals:"
    /\ ErrorKind(trig.err) = "UnknownType"

\* A rule that deserializes into one of the four types, with a pattern that
\* compiles when it is a regex kind.
WellFormed(u) ==
    /\ u.err = <<>>
    /\ u.rule.Type \in {"contains", "not_contains", "regex", "not_regex"}
    /\ u.rule.Type \in {"regex", "not_regex"} => Compilable(u.rule.Value)

\* The condition of a well-formed rule r holds of content.
ConditionMet(r, content) ==
    CASE r.Type = "contains" -> Contains(content, r.Value)
      [] r.Type = "not_contains" -> ~Contains(content, r.Value)
      [] r.Type = "regex" -> MatchString(Compile(r.Value).pieces, content)
      [] r.Type = "not_regex" -> ~MatchString(Compile(r.Value).pieces, content)

\* C12: Evaluate is fail-open: an empty rule fires with no error; a rule
\* that does not deserialize, has an unknown type or a pattern that does not
\* compile fires with an error; no call returns false with an error, and
\* false is returned only by a well-formed rule whose condition is not met.
C12_FailOpen ==
    trig.evaluated =>
        /\ trig.rule = "" => (trig.fires /\ trig.everr = <<>>)
        /\ (trig.rule # "" /\ ~WellFormed(Unmarshal(trig.rule))) =>
             (trig.fires /\ trig.everr # <<>>)
        /\ ~(~trig.fires /\ trig.everr # <<>>)
        /\ ~trig.fires =>
             /\ trig.rule # ""
             /\ WellFormed(Unmarshal(trig.rule))
             /\ ~ConditionMet(Unmarshal(trig.rule).rule, trig.content)

\* A stored regex rule whose pattern does not compile.
C12_Witness ==
    /\ trig.evaluated
    /\ trig.rule = "{\"type\":\"regex\",\"value\":\"[\"}"
    /\ trig.fires
    /\ trig.everr # <<>>

\* The result of the rule of type typ and value v on content.
FiresOn(typ, v, content) == Evaluate(Marshal(Rule(typ, v)), content).fires

\* C13: a contains rule with a non-empty value fires exactly when the
\* content has the value as a literal, case-sensitive substring, and
\* not_contains is its negation; not_regex is the negation of regex; the
\* rule parsed from 'contains:out of stock' fires on 'Item: out of stock'
\* and not on 'Item: in stock'; evaluating again gives the same.
C13_RuleSemantics ==
    (trig.evaluated /\ trig.rule # "" /\ WellFormed(Unmarshal(trig.rule))
        /\ Unmarshal(trig.rule).rule.Value # "") =>
        /\ trig.everr = <<>>
        /\ trig.fires = Evaluate(trig.rule, trig.content).fires
        /\ Unmarshal(trig.rule).rule.Type = "contains" =>
             /\ trig.fires = Contains(trig.content, Unmarshal(trig.rule).rule.Value)
             /\ trig.fires =
                  ~FiresOn("not_contains", Unmarshal(trig.rule).rule.Value, trig.content)
        /\ Unmarshal(trig.rule).rule.Type = "not_contains" =>
             /\ trig.fires = ~Contains(trig.content, Unmarshal(trig.rule).rule.Value)
             /\ trig.fires =
                  ~FiresOn("contains", Unmarshal(trig.rule).rule.Value, trig.content)
        /\ Unmarshal(trig.rule).rule.Type = "regex" =>
             trig.fires = ~FiresOn("not_regex", Unmarshal(trig.rule).rule.Value, trig.content)
        /\ Unmarshal(trig.rule).rule.Type = "not_regex" =>
             trig.fires = ~FiresOn("regex", Unmarshal(trig.rule).rule.Value, trig.content)
        /\ trig.input = "contains:out of stock" =>
             /\ trig.content = "Item: out of stock" => trig.fires
             /\ trig.content = "Item: in stock" => ~trig.fires

C13_Witness ==
    /\ trig.evaluated
    /\ trig.input = "contains:out of stock"
    /\ trig.content = "Item: in stock"
    /\ ~trig.fires

\* The rule in hand was written by ParseShorthand and has been described.
DescribedParse == trig.described /\ trig.input # "" /\ trig.err = <<>>

Plain(v) == \A k \in 1..Len(v) : At(v, k) \notin {"\"", "\\", "\n", "\t", "\r"}

Accepted == trig.input # "" /\ trig.err = <<>> /\ trig.rule = ParseShorthand(trig.input).rule

\* The four sentences of Describe for a rule of value v.
Sentences(v) ==
    { "trigger if contains " \o Quote(v), "trigger if missing " \o Quote(v),
      "trigger if matches /" \o v \o "/", "trigger if not matches /" \o v \o "/" }

\* C21: a rule that ParseShorthand returned with no error deserializes into
\* one of the four types with a pattern that compiles; Evaluate on it and
\* any content returns no error and the result of the rule's condition on
\* the content, never the fail-open answer; Describe on it returns one of
\* the four 'trigger if' sentences and not the rule text.
C21_AcceptedRulesReliable ==
    Accepted =>
        /\ trig.rule # ""
        /\ WellFormed(Unmarshal(trig.rule))
        /\ Unmarshal(trig.rule).rule.Type = ShortType(trig.input)
        /\ trig.evaluated =>
             /\ trig.everr = <<>>
             /\ trig.fires = ConditionMet(Unmarshal(trig.rule).rule, trig.content)
        /\ trig.described =>
             /\ trig.text # trig.rule
             /\ trig.text \in Sentences(Unmarshal(trig.rule).rule.Value)

\* A value with double quotes: the rule parsed from it does not fire on a
\* content that has the value, with no error, and is described.
C21_Witness ==
    /\ Accepted
    /\ trig.input = "not_contains:say \"hi\""
    /\ trig.evaluated
    /\ trig.content = "a.c a:b <b>& say \"hi\""
    /\ ~trig.fires
    /\ trig.everr = <<>>
    /\ trig.described
    /\ trig.text = "trigger if missing \"say \\\"hi\\\"\""

-----------------------------------------------------------------------------
\* Properties of the edit command

\* The command found its target.
Found == cmd.op = "edit" /\ GetTarget(cmd.before[1], cmd.key).err = <<>>

\* The shorthand given with --trigger-if, and what ParseShorthand makes of it.
GivenRule == ParseShorthand(cmd.flags["trigger-if"][1])

\* A serialized rule of one of the four types with a non-empty value.
ValidRule(text) ==
    /\ Unmarshal(text).err = <<>>
    /\ Unmarshal(text).rule.Type \in {"contains", "not_contains", "regex", "not_regex"}
    /\ Unmarshal(text).rule.Value # ""
    /\ text = Marshal(Unmarshal(text).rule)

\* C14: the TriggerRule of the stored target is empty or the serialized form
\* of a rule of one of the four types with a non-empty value; an edit whose
\* --trigger-if fails ParseShorthand exits with that error without calling
\* UpdateTarget and leaves the stored target as it was, whatever other flags
\* it was given.
C14_NoInvalidRuleStored ==
    /\ stored.TriggerRule = "" \/ ValidRule(stored.TriggerRule)
    /\ (Found /\ cmd.flags["trigger-if"] # <<>> /\ GivenRule.err # <<>>) =>
         /\ cmd.exit = GivenRule.err
         /\ cmd.updates = 0
         /\ stored = cmd.before[1]

\* A bad --trigger-if given with --name and --clear-trigger to a target that
\* has a rule: the rule and the name stay.
C14_Witness ==
    /\ Found
    /\ cmd.flags["trigger-if"] = <<"equals:x">>
    /\ cmd.flags["name"] = <<"New Name">>
    /\ cmd.flags["clear-trigger"] = <<TRUE>>
    /\ cmd.exit # <<>>
    /\ stored.Name = "My Site"
    /\ ValidRule(stored.TriggerRule)

\* The flag that sets field and the flag that clears it ("" when there is
\* none).
ValueFlagOf(field) ==
    IF \E k \in 1..Len(ValueFlags) : ValueFlags[k][2] = field
    THEN ValueFlags[CHOOSE k \in 1..Len(ValueFlags) : ValueFlags[k][2] = field][1]
    ELSE ""

ClearFlagOf(field) ==
    IF \E k \in 1..Len(ClearFlags) : ClearFlags[k][2] = field
    THEN ClearFlags[CHOOSE k \in 1..Len(ClearFlags) : ClearFlags[k][2] = field][1]
    ELSE ""

\* The command line gives flag name (gives it as true, for a clear flag).
Given(name) == name # "" /\ cmd.flags[name] # <<>>
GivenTrue(name) == name # "" /\ cmd.flags[name] = <<TRUE>>

\* The value the command line gives for field.
NewValue(field) ==
    IF field = "TriggerRule" THEN GivenRule.rule ELSE cmd.flags[ValueFlagOf(field)][1]

\* The command was given no flag and exited with 'nothing to update', the
\* store not called and unchanged.
NothingToUpdate ==
    /\ cmd.exit # <<>>
    /\ cmd.exit[1].text = "nothing to update"
    /\ cmd.updates = 0
    /\ stored = cmd.before[1]

\* C19 as stated: after a successful edit every field whose flag and clear
\* flag were not given has its old value, every field given a value has that
\* value and every field given a clear flag is empty; with no flag given the
\* command reports nothing to update and the store is not called.
C19_Original ==
    /\ (cmd.op = "edit" /\ cmd.exit = <<>>) =>
         \A field \in DOMAIN stored :
             /\ (~Given(ValueFlagOf(field)) /\ ~Given(ClearFlagOf(field))) =>
                  stored[field] = cmd.before[1][field]
             /\ Given(ValueFlagOf(field)) => stored[field] = NewValue(field)
             /\ GivenTrue(ClearFlagOf(field)) => stored[field] = ""
    /\ (Found /\ \A name \in FlagNames : ~Given(name)) => NothingToUpdate

\* C19, amended: after a successful edit a field whose clear flag was given
\* as true is empty, whatever value its own flag gave; any other field given
\* a value has that value; every other field has its old value.  A command
\* given no flag, or only clear flags given as false, reports nothing to
\* update and does not call the store; a command that exits with an error
\* leaves the store unchanged.
C19_OnlyGivenFlags ==
    /\ (cmd.op = "edit" /\ cmd.exit = <<>>) =>
         /\ cmd.updates = 1
         /\ \A field \in DOMAIN stored :
                stored[field] =
                    IF GivenTrue(ClearFlagOf(field)) THEN ""
                    ELSE IF Given(ValueFlagOf(field)) THEN NewValue(field)
                    ELSE cmd.before[1][field]
    /\ (Found /\ \A field \in DOMAIN stored :
                    ~Given(ValueFlagOf(field)) /\ ~GivenTrue(ClearFlagOf(field))) =>
         NothingToUpdate
    /\ (cmd.op = "edit" /\ cmd.exit # <<>>) => stored = cmd.before[1]

\* --expect and --clear-expect in one command, with --name: Expect is
\* cleared, the name is set, the rest stays.
C19_Witness ==
    /\ cmd.op = "edit"
    /\ cmd.exit = <<>>
    /\ cmd.flags["expect"] = <<"Welcome">>
    /\ cmd.flags["clear-expect"] = <<TRUE>>
    /\ cmd.flags["name"] = <<"New Name">>
    /\ cmd.before[1].Expect = "ok"
    /\ stored.Expect = ""
    /\ stored.Name = "New Name"
    /\ stored.Retries = cmd.before[1].Retries

-----------------------------------------------------------------------------
\* Termination of Check

-----------------------------------------------------------------------------
\* Concurrent calls of Check

\* C17: with calls for different targets interleaved in any way, each call
\* returns the Result that its own last attempt alone gives for what that
\* attempt saw of the network and the store, after at most E attempts of its
\* own, and no step of Check changes the store or a target.
C17_CallsIndependent ==
    /\ [](\A p \in Ctx :
            /\ Len(attempts[p]) <= E(target[p])
            /\ result[p] # <<>> =>
                 /\ last[p] # <<>>
                 /\ result[p][1] = checkOnce(target[p], last[p][1].net, store).res
            /\ pc[p] = "done" =>
                 /\ ret[p] # <<>>
                 /\ last[p] # <<>>
                 /\ ret[p][1] = checkOnce(target[p], last[p][1].net, store).res)
    /\ [][store' = store /\ target' = target]_vars

\* Both calls in flight, each holding a Result of its own, different from
\* the other's: the first about to return, the second pausing.
C17_Witness ==
    /\ target["c1"].ID # target["c2"].ID
    /\ pc["c1"] = "loop" /\ i["c1"] = 2 /\ retries["c1"] = 2
    /\ pc["c2"] = "sleep"
    /\ result["c1"] # <<>> /\ result["c2"] # <<>>
    /\ result["c1"][1].Status = "error"
    /\ result["c2"][1].Status = "down"

=============================================================================
